---- MODULE Spec2Model ----
(***************************************************************************)
(* A model of the mango x86 instruction decoder: the byte Reader, the      *)
(* prefix / REX classifiers, the register model, the opcode table, the     *)
(* ModR/M and SIB decoders, the displacement / immediate decoder and        *)
(* Instruction::from_reader, the state machine that ties them together.     *)
(*                                                                         *)
(* Conventions.  A byte is a number in 0..255.  Option<T> is a sequence:   *)
(* None is << >> and Some(x) is <<x>>.  A multi-byte integer is the        *)
(* sequence of its little-endian bytes, so that no width is lost.  A Rust  *)
(* panic (panic!, unreachable!, todo!) is the outcome "panic".              *)
(***************************************************************************)
EXTENDS Integers, Sequences, FiniteSets, TLC

None == << >>
Some(x) == <<x>>
IsSome(o) == Len(o) = 1
IsNone(o) == Len(o) = 0
Unwrap(o) == o[1]

\* Bit fields of a byte.
Shr(b, n) == b \div (2 ^ n)
Bits(b, lo, n) == (b \div (2 ^ lo)) % (2 ^ n)
ModBits(b) == Bits(b, 6, 2)
RegBits(b) == Bits(b, 3, 3)
RmBits(b) == Bits(b, 0, 3)

RECURSIVE Repeat(_, _)
Repeat(b, n) == IF n <= 0 THEN << >> ELSE <<b>> \o Repeat(b, n - 1)

(***************************************************************************)
(* Reader (reader.rs).  The position is 0-based, as in the source.         *)
(***************************************************************************)
\* A slice that does not report the end of the buffer: the missing bytes
\* read as zero instead of giving NotEnoughBytes.
ReaderGetPadded(bytes, pos, size) ==
    [ok |-> TRUE,
     val |-> [i \in 1..size |-> IF pos + i <= Len(bytes) THEN bytes[pos + i] ELSE 0]]

\* Reader::read_bytes / peek_bytes: bytes.get(pos..pos + size).
ReaderGet(bytes, pos, size) ==
    IF pos + size <= Len(bytes)
    THEN [ok |-> TRUE, val |-> SubSeq(bytes, pos + 1, pos + size)]
    ELSE [ok |-> FALSE, val |-> << >>]

\* Reader::read::<T>() for a T of `size` bytes: the bytes and the new position.
ReaderRead(bytes, pos, size) ==
    LET g == ReaderGet(bytes, pos, size)
    IN  IF g.ok THEN [ok |-> TRUE, val |-> g.val, pos |-> pos + size]
        ELSE [ok |-> FALSE, val |-> << >>, pos |-> pos]

\* A peek that moves the position as a read does.
ReaderPeekAdvances(bytes, pos, size) ==
    LET g == ReaderGet(bytes, pos, size)
    IN  [ok |-> g.ok, val |-> g.val, pos |-> IF g.ok THEN pos + size ELSE pos]

\* Reader::peek::<T>(): the same bytes, position unchanged.
ReaderPeek(bytes, pos, size) ==
    LET g == ReaderGet(bytes, pos, size)
    IN  [ok |-> g.ok, val |-> g.val, pos |-> pos]

\* The integer types read_type! implements FromLeBytes for, as far as their
\* values fit the integers of the model checker: name, size_of, signedness.
IntTypes ==
    {[name |-> "u8", size |-> 1, signed |-> FALSE], [name |-> "i8", size |-> 1, signed |-> TRUE],
     [name |-> "u16", size |-> 2, signed |-> FALSE], [name |-> "i16", size |-> 2, signed |-> TRUE],
     [name |-> "i32", size |-> 4, signed |-> TRUE]}

\* uN::from_le_bytes: the first byte is the least significant.
RECURSIVE LeUnsigned(_)
LeUnsigned(val) == IF Len(val) = 0 THEN 0 ELSE val[1] + 256 * LeUnsigned(Tail(val))

\* T::from_bytes = T::from_le_bytes: for a signed T the last byte carries
\* the sign (two's complement).
FromLeBytes(val, ty) ==
    IF ty.signed /\ val[Len(val)] >= 128
    THEN LeUnsigned(SubSeq(val, 1, Len(val) - 1))
         + (val[Len(val)] - 256) * (256 ^ (Len(val) - 1))
    ELSE LeUnsigned(val)

\* Reader::bytes_unread.
BytesUnread(bytes, pos) == Len(bytes) - pos

(***************************************************************************)
(* Prefix classifier (prefix.rs).                                          *)
(***************************************************************************)
LOCK == 240
REPNE == 242
REP == 243
CS_SEG_OVERRIDE == 46
SS_SEG_OVERRIDE == 54
DS_SEG_OVERRIDE == 62
ES_SEG_OVERRIDE == 38
FS_SEG_OVERRIDE == 100
GS_SEG_OVERRIDE == 101
OP_SIZE_OVERRIDE == 102
ADDR_SIZE_OVERRIDE == 103

\* Group1::try_from.
Group1FromByte(value) ==
    CASE value = LOCK -> Some("Lock")
      [] value = REPNE -> Some("RepNE")
      [] value = REP -> Some("Rep")
      [] OTHER -> None

\* Group2::try_from.
Group2FromByte(value) ==
    CASE value = CS_SEG_OVERRIDE -> Some("CsSegOverride")
      [] value = SS_SEG_OVERRIDE -> Some("SsSegOverride")
      [] value = DS_SEG_OVERRIDE -> Some("DsSegOverride")
      [] value = ES_SEG_OVERRIDE -> Some("EsSegOverride")
      [] value = FS_SEG_OVERRIDE -> Some("FsSegOverride")
      [] value = GS_SEG_OVERRIDE -> Some("GsSegOverride")
      [] OTHER -> None

\* Prefix::from_byte.
PrefixFromByte(value) ==
    IF IsSome(Group1FromByte(value)) THEN Group1FromByte(value)
    ELSE IF IsSome(Group2FromByte(value)) THEN Group2FromByte(value)
    ELSE IF value = OP_SIZE_OVERRIDE THEN Some("OpSize")
    ELSE IF value = ADDR_SIZE_OVERRIDE THEN Some("AddrSize")
    ELSE None

(***************************************************************************)
(* REX classifier (rex.rs).                                                *)
(***************************************************************************)
\* Rex::from_byte: 0x40..=0x4F, W = bit 3, R = bit 2, X = bit 1, B = bit 0.
RexFromByte(value) ==
    IF value >= 64 /\ value <= 79
    THEN Some([w |-> Bits(value, 3, 1), r |-> Bits(value, 2, 1),
               x |-> Bits(value, 1, 1), b |-> Bits(value, 0, 1)])
    ELSE None

(***************************************************************************)
(* OpSize / AddrSize (opcode.rs).                                          *)
(***************************************************************************)
OpSizes == {"U8", "I8", "U16", "I16", "U32", "I32", "U64", "I64", "CpuMode"}

\* #[derive(PartialOrd)] on OpSize: the variants' declaration order.
OpSizeRank(s) ==
    CASE s = "U8" -> 0 [] s = "I8" -> 1 [] s = "U16" -> 2 [] s = "I16" -> 3
      [] s = "U32" -> 4 [] s = "I32" -> 5 [] s = "U64" -> 6 [] s = "I64" -> 7
      [] s = "CpuMode" -> 8

OpSizeGt(a, b) == OpSizeRank(a) > OpSizeRank(b)

\* impl From<AddrSize> for OpSize.
OpSizeFromAddrSize(a) ==
    CASE a = "Addr16Bit" -> "U16" [] a = "Addr32Bit" -> "U32" [] a = "Addr64Bit" -> "U64"

\* impl From<Arch> for OpSize.
OpSizeFromArch(arch) ==
    CASE arch = "Arch16" -> "U16" [] arch \in {"Arch32", "Arch64"} -> "U32"

\* impl From<Arch> for AddrSize.
AddrSizeFromArch(arch) ==
    CASE arch = "Arch16" -> "Addr16Bit" [] arch = "Arch32" -> "Addr32Bit"
      [] arch = "Arch64" -> "Addr64Bit"

\* OpSize::from_cpu_opcode(cpu_mode, ident): the operand size resolution starts
\* from.  Its body is not among the sources; the specification's section 4.7
\* step 5 says "start from the CPU-mode default".
OpSizeFromCpuOpcode(cpu_mode, ident) == OpSizeFromArch(cpu_mode)

(***************************************************************************)
(* Register model (reg.rs).  A register is its name.                      *)
(***************************************************************************)
PANIC == "PANIC"

\* The impl Gpr blocks: Reg8BitLo, Reg16Bit, Reg32Bit, Reg64Bit of a family.
GprTable ==
    [Accumulator  |-> <<"AL", "AX", "EAX", "RAX">>,
     Counter      |-> <<"CL", "CX", "ECX", "RCX">>,
     Data         |-> <<"DL", "DX", "EDX", "RDX">>,
     Base         |-> <<"BL", "BX", "EBX", "RBX">>,
     StackPointer |-> <<"SPL", "SP", "ESP", "RSP">>,
     BasePointer  |-> <<"BPL", "BP", "EBP", "RBP">>,
     Source       |-> <<"SIL", "SI", "ESI", "RSI">>,
     Destination  |-> <<"DIL", "DI", "EDI", "RDI">>,
     R8Reg        |-> <<"R8b", "R8w", "R8d", "R8">>,
     R9Reg        |-> <<"R9b", "R9w", "R9d", "R9">>,
     R10Reg       |-> <<"R10b", "R10w", "R10d", "R10">>,
     R11Reg       |-> <<"R11b", "R11w", "R11d", "R11">>,
     R12Reg       |-> <<"R12b", "R12w", "R12d", "R12">>,
     R13Reg       |-> <<"R13b", "R13w", "R13d", "R13">>,
     R14Reg       |-> <<"R14b", "R14w", "R14d", "R14">>,
     R15Reg       |-> <<"R15b", "R15w", "R15d", "R15">>]

\* The 64-bit member taken for U32 as well.
GprFromOpsizeWide(family, op_size) ==
    CASE op_size = "U8" -> GprTable[family][1]
      [] op_size = "U16" -> GprTable[family][2]
      [] op_size = "U32" -> GprTable[family][4]
      [] op_size = "U64" -> GprTable[family][4]
      [] OTHER -> GprTable[family][3]

\* Gpr::from_opsize: sizes other than U8/U16/U32/U64 give the 32-bit member.
GprFromOpsize(family, op_size) ==
    CASE op_size = "U8" -> GprTable[family][1]
      [] op_size = "U16" -> GprTable[family][2]
      [] op_size = "U32" -> GprTable[family][3]
      [] op_size = "U64" -> GprTable[family][4]
      [] OTHER -> GprTable[family][3]

\* Reg::convert_with_opsize.  The arms are tried in order; the twelfth arm is
\* `R11b | R8w | R8d | R8 => R8Reg`, so R11w, R11d and R11 reach unreachable!().
RegConvertWithOpsize(reg, op_size) ==
    CASE reg \in {"AL", "AH", "AX", "EAX", "RAX"} -> GprFromOpsize("Accumulator", op_size)
      [] reg \in {"CL", "CH", "CX", "ECX", "RCX"} -> GprFromOpsize("Counter", op_size)
      [] reg \in {"DL", "DH", "DX", "EDX", "RDX"} -> GprFromOpsize("Data", op_size)
      [] reg \in {"BL", "BH", "BX", "EBX", "RBX"} -> GprFromOpsize("Base", op_size)
      [] reg \in {"SPL", "SP", "ESP", "RSP"} -> GprFromOpsize("StackPointer", op_size)
      [] reg \in {"BPL", "BP", "EBP", "RBP"} -> GprFromOpsize("BasePointer", op_size)
      [] reg \in {"SIL", "SI", "ESI", "RSI"} -> GprFromOpsize("Source", op_size)
      [] reg \in {"DIL", "DI", "EDI", "RDI"} -> GprFromOpsize("Destination", op_size)
      [] reg \in {"R8b", "R8w", "R8d", "R8"} -> GprFromOpsize("R8Reg", op_size)
      [] reg \in {"R9b", "R9w", "R9d", "R9"} -> GprFromOpsize("R9Reg", op_size)
      [] reg \in {"R10b", "R10w", "R10d", "R10"} -> GprFromOpsize("R10Reg", op_size)
      [] reg \in {"R11b"} -> GprFromOpsize("R8Reg", op_size)
      [] reg \in {"R12b", "R12w", "R12d", "R12"} -> GprFromOpsize("R12Reg", op_size)
      [] reg \in {"R13b", "R13w", "R13d", "R13"} -> GprFromOpsize("R13Reg", op_size)
      [] reg \in {"R14b", "R14w", "R14d", "R14"} -> GprFromOpsize("R14Reg", op_size)
      [] reg \in {"R15b", "R15w", "R15d", "R15"} -> GprFromOpsize("R15Reg", op_size)
      [] OTHER -> PANIC

\* impl SizedOperand for Reg.
RegSize(reg) ==
    CASE reg \in {"AL", "CL", "DL", "BL", "SPL", "BPL", "SIL", "DIL", "R8b", "R9b",
                  "R10b", "R11b", "R12b", "R13b", "R14b", "R15b"} -> "U8"
      [] reg \in {"AX", "CX", "DX", "BX", "SP", "BP", "SI", "DI", "R8w", "R9w",
                  "R10w", "R11w", "R12w", "R13w", "R14w", "R15w"} -> "U16"
      [] reg \in {"EAX", "ECX", "EDX", "EBX", "ESP", "EBP", "ESI", "EDI", "R8d", "R9d",
                  "R10d", "R11d", "R12d", "R13d", "R14d", "R15d"} -> "U32"
      [] reg \in {"RAX", "RCX", "RDX", "RBX", "RSP", "RBP", "RSI", "RDI", "R8", "R9",
                  "R10", "R11", "R12", "R13", "R14", "R15"} -> "U64"
      [] OTHER -> "CpuMode"

\* Reg::from_rm16 / from_rm32 / from_rm64: the register a 3- or 4-bit index names.
Rm16Regs == <<"AX", "CX", "DX", "BX", "SP", "BP", "SI", "DI">>
Rm32Regs == <<"EAX", "ECX", "EDX", "EBX", "ESP", "EBP", "ESI", "EDI">>
Rm64Regs == <<"RAX", "RCX", "RDX", "RBX", "RSP", "RBP", "RSI", "RDI",
              "R8", "R9", "R10", "R11", "R12", "R13", "R14", "R15">>

RegFromRm16(value) == Rm16Regs[(value % 8) + 1]
RegFromRm32(value) == Rm32Regs[(value % 8) + 1]
RegFromRm64(value) == Rm64Regs[(value % 16) + 1]

\* Reg::from_byte_with_arch: no architecture means Arch64 here.
RegFromByteWithArch(value, maybe_arch) ==
    LET arch == IF IsSome(maybe_arch) THEN Unwrap(maybe_arch) ELSE "Arch64"
    IN  CASE arch = "Arch16" -> RegFromRm16(value)
          [] arch = "Arch32" -> RegFromRm32(value)
          [] arch = "Arch64" -> RegFromRm64(value)

\* RegFamily::from(u8) followed by RegFamily::reg_from_arch(&arch), used for a
\* register embedded in the opcode byte.  Neither body is among the sources;
\* the specification's section 4.7 says "derive architecture from (cpu_mode,
\* effective op size), then register-family lookup".
RegFamilyRegFromArch(encoding, arch) ==
    CASE arch = "Arch16" -> RegFromRm16(encoding)
      [] arch = "Arch32" -> RegFromRm32(encoding)
      [] arch = "Arch64" -> RegFromRm64(encoding)

\* RegFamily::reg_from: the only family of the enum is the accumulator.
RegFamilyRegFrom(family, op_size) == GprFromOpsize(family, op_size)

(***************************************************************************)
(* Displacement and immediate (imm.rs).                                    *)
(***************************************************************************)
\* `value as uN` from an unsigned / a signed narrower integer, on
\* little-endian bytes: zero- / sign-extension to n bytes.
ZeroExtend(val, n) == val \o Repeat(0, n - Len(val))
SignExtend(val, n) ==
    val \o Repeat(IF val[Len(val)] >= 128 THEN 255 ELSE 0, n - Len(val))

\* The bytes a DispArch reads.
DispArchBytes(disp_arch) ==
    CASE disp_arch = "Bit8" -> 1 [] disp_arch = "Bit16" -> 2
      [] disp_arch = "Bit32" -> 4 [] disp_arch = "Bit64" -> 8

DispKind(disp_arch) ==
    CASE disp_arch = "Bit8" -> "Disp8" [] disp_arch = "Bit16" -> "Disp16"
      [] disp_arch = "Bit32" -> "Disp32" [] disp_arch = "Bit64" -> "Disp64"

\* DispArch::read.
DispArchRead(disp_arch, bytes, pos) ==
    LET r == ReaderRead(bytes, pos, DispArchBytes(disp_arch))
    IN  [ok |-> r.ok, pos |-> r.pos,
         val |-> [kind |-> DispKind(disp_arch), val |-> r.val]]

ImmKinds == {"ImmU8", "ImmU16", "ImmU32", "ImmU64", "ImmI8", "ImmI16", "ImmI32", "ImmI64"}

\* impl SizedOperand for Immediate.
ImmSize(imm) ==
    CASE imm.kind = "ImmU8" -> "U8" [] imm.kind = "ImmU16" -> "U16"
      [] imm.kind = "ImmU32" -> "U32" [] imm.kind = "ImmU64" -> "U64"
      [] imm.kind = "ImmI8" -> "I8" [] imm.kind = "ImmI16" -> "I16"
      [] imm.kind = "ImmI32" -> "I32" [] imm.kind = "ImmI64" -> "I64"

ImmSigned(imm) == imm.kind \in {"ImmI8", "ImmI16", "ImmI32", "ImmI64"}

\* Immediate::parse: the variant read for each OpSize.
ImmParseKind(op_size) ==
    CASE op_size \in {"U8", "I8"} -> "ImmI8"
      [] op_size \in {"U16", "I16"} -> "ImmI16"
      [] op_size \in {"U32", "I32", "U64", "I64", "CpuMode"} -> "ImmI32"

ImmKindBytes(kind) ==
    CASE kind \in {"ImmU8", "ImmI8"} -> 1 [] kind \in {"ImmU16", "ImmI16"} -> 2
      [] kind \in {"ImmU32", "ImmI32"} -> 4 [] kind \in {"ImmU64", "ImmI64"} -> 8

ImmParse(op_size, bytes, pos) ==
    LET kind == ImmParseKind(op_size)
        r == ReaderRead(bytes, pos, ImmKindBytes(kind))
    IN  [ok |-> r.ok, pos |-> r.pos, val |-> [kind |-> kind, val |-> r.val]]

\* `value as uN` of an immediate's payload.
ImmCast(imm, n) == IF ImmSigned(imm) THEN SignExtend(imm.val, n) ELSE ZeroExtend(imm.val, n)

\* Immediate::convert_with_opsize.  The arms of the outer match are tried in
\* order: `U32 | I32` comes before `U64 | I32`, and I64 falls to `_ => self`.
ImmConvertWithOpsize(imm, op_size) ==
    CASE op_size \in {"CpuMode", "U8", "I8"} -> imm
      [] op_size \in {"U16", "I16"} ->
            IF imm.kind \in {"ImmU8", "ImmI8"}
            THEN [kind |-> "ImmU16", val |-> ImmCast(imm, 2)] ELSE imm
      [] op_size \in {"U32", "I32"} ->
            IF imm.kind \in {"ImmU8", "ImmI8", "ImmU16", "ImmI16"}
            THEN [kind |-> "ImmU32", val |-> ImmCast(imm, 4)] ELSE imm
      [] op_size \in {"U64"} ->
            IF imm.kind \in {"ImmU8", "ImmI8", "ImmU16", "ImmI16", "ImmU32", "ImmI32"}
            THEN [kind |-> "ImmU64", val |-> ImmCast(imm, 8)] ELSE imm
      [] OTHER -> imm

(***************************************************************************)
(* Opcode table (opcode.rs).                                               *)
(***************************************************************************)
ESCAPE_CODE == 15

\* enum Operand, the per-operand template.  Every variant is a record of the
\* same shape; the fields a variant does not carry are "" or 0.
OperandModRM(op_size, addr_size) ==
    [tag |-> "ModRM", size |-> op_size, addr |-> addr_size, reg |-> "", byte |-> 0]
OperandModReg(op_size) ==
    [tag |-> "ModReg", size |-> op_size, addr |-> "", reg |-> "", byte |-> 0]
OperandImmediate(op_size) ==
    [tag |-> "Immediate", size |-> op_size, addr |-> "", reg |-> "", byte |-> 0]
OperandReg(reg) ==
    [tag |-> "Reg", size |-> "", addr |-> "", reg |-> reg, byte |-> 0]
OperandRegFamily(family) ==
    [tag |-> "RegFamily", size |-> "", addr |-> "", reg |-> family, byte |-> 0]
OperandRegInOpcode(byte) ==
    [tag |-> "RegInOpcode", size |-> "", addr |-> "", reg |-> "", byte |-> byte]
OperandSegment(seg) ==
    [tag |-> "Segment", size |-> "", addr |-> "", reg |-> seg, byte |-> 0]

\* Operand::from_map: addressing method E/G/I/M and operand type B/V/Z/D.
OperandFromMap(addr_meth, op_type, arch) ==
    LET op_size ==
            CASE op_type = "B" -> "U8"
              [] op_type = "V" -> "CpuMode"
              [] op_type = "Z" -> IF arch = "Arch16" THEN "U16" ELSE "U32"
              [] op_type = "D" -> "U32"
    IN  CASE addr_meth \in {"E", "M"} -> OperandModRM(op_size, AddrSizeFromArch(arch))
          [] addr_meth = "G" -> OperandModReg(op_size)
          [] addr_meth = "I" -> OperandImmediate(op_size)

\* enum OpcodeType: the variant, and the payload of Prefix, Rex and
\* NeedsModRMExtension.
Ident(t) == [t |-> t, prefix |-> "", rex |-> None, byte |-> 0]
IdentPrefix(p) == [t |-> "Prefix", prefix |-> p, rex |-> None, byte |-> 0]
IdentRex(rex) == [t |-> "Rex", prefix |-> "", rex |-> Some(rex), byte |-> 0]
IdentNeedsExt(byte) ==
    [t |-> "NeedsModRMExtension", prefix |-> "", rex |-> None, byte |-> byte]

NoOperands == <<None, None, None, None>>
Ops1(a) == <<Some(a), None, None, None>>
Ops2(a, b) == <<Some(a), Some(b), None, None>>

\* struct Opcode.
MkOpcode(ident, operands, encoding) ==
    [ident |-> ident, operands |-> operands, encoding |-> encoding]

\* The six forms shared by the ADD, ADC and AND rows (bytes x0..x5).
OpcodeArith(t, low, arch) ==
    CASE low = 0 -> MkOpcode(Ident(t), Ops2(OperandFromMap("E", "B", arch),
                                            OperandFromMap("G", "B", arch)), Some("MR"))
      [] low = 1 -> MkOpcode(Ident(t), Ops2(OperandFromMap("E", "V", arch),
                                            OperandFromMap("G", "V", arch)), Some("MR"))
      [] low = 2 -> MkOpcode(Ident(t), Ops2(OperandFromMap("G", "B", arch),
                                            OperandFromMap("E", "B", arch)), Some("RM"))
      [] low = 3 -> MkOpcode(Ident(t), Ops2(OperandFromMap("G", "V", arch),
                                            OperandFromMap("E", "V", arch)), Some("RM"))
      [] low = 4 -> MkOpcode(Ident(t), Ops2(OperandReg("AL"),
                                            OperandFromMap("I", "B", arch)), Some("I"))
      [] low = 5 -> MkOpcode(Ident(t), Ops2(OperandRegFamily("Accumulator"),
                                            OperandFromMap("I", "Z", arch)), Some("I"))

\* The one-byte opcode map proper: the `match byte` of from_byte_with_arch.
OpcodeMap(byte, arch) ==
    CASE byte \in 0..5 -> OpcodeArith("Add", byte, arch)
      [] byte = 6 -> MkOpcode(Ident("Push"), Ops1(OperandSegment("ES")), Some("ZO"))
      [] byte = 14 -> MkOpcode(Ident("Push"), Ops1(OperandSegment("CS")), Some("ZO"))
      [] byte \in 16..21 -> OpcodeArith("Adc", byte - 16, arch)
      [] byte = 22 -> MkOpcode(Ident("Push"), Ops1(OperandSegment("SS")), Some("ZO"))
      [] byte = 30 -> MkOpcode(Ident("Push"), Ops1(OperandSegment("DS")), Some("ZO"))
      [] byte \in 32..37 -> OpcodeArith("And", byte - 32, arch)
      [] byte = 48 -> MkOpcode(Ident("Xor"), Ops2(OperandFromMap("E", "B", arch),
                                                  OperandFromMap("G", "B", arch)), Some("MR"))
      [] byte = 49 -> MkOpcode(Ident("Xor"),
                               Ops2(OperandModRM("CpuMode", AddrSizeFromArch(arch)),
                                    OperandModReg("CpuMode")), Some("MR"))
      [] byte = 52 -> MkOpcode(Ident("Xor"), Ops2(OperandReg("AL"),
                                                  OperandImmediate("U8")), Some("I"))
      [] byte = 53 -> MkOpcode(Ident("Xor"), Ops2(OperandRegFamily("Accumulator"),
                                                  OperandImmediate("U32")), Some("I"))
      [] byte \in 80..87 -> MkOpcode(Ident("Push"), Ops1(OperandRegInOpcode(byte)), Some("O"))
      [] byte = 104 -> MkOpcode(Ident("Push"), Ops1(OperandFromMap("I", "Z", arch)), Some("I"))
      [] byte = 106 -> MkOpcode(Ident("Push"), Ops1(OperandFromMap("I", "B", arch)), Some("I"))
      [] byte \in {128, 129, 130, 131, 255} -> MkOpcode(IdentNeedsExt(byte), NoOperands, None)
      [] byte = 141 -> MkOpcode(Ident("Lea"),
                                Ops2(OperandModReg("CpuMode"),
                                     OperandModRM("CpuMode", AddrSizeFromArch(arch))),
                                Some("RM"))
      [] OTHER -> MkOpcode(Ident("Unknown"), NoOperands, None)

\* The map with ModR/M encoding M given to the bytes it has no entry for.
OpcodeFromByteWithArchUnknownM(byte, arch) ==
    IF IsSome(PrefixFromByte(byte))
    THEN MkOpcode(IdentPrefix(Unwrap(PrefixFromByte(byte))), NoOperands, None)
    ELSE IF IsSome(RexFromByte(byte))
    THEN MkOpcode(IdentRex(Unwrap(RexFromByte(byte))), NoOperands, None)
    ELSE IF OpcodeMap(byte, arch).ident.t = "Unknown"
    THEN MkOpcode(Ident("Unknown"), NoOperands, Some("M"))
    ELSE OpcodeMap(byte, arch)

\* Opcode::from_byte_with_arch: a legacy prefix, else a REX byte (in every
\* CPU mode: the source makes no mode check), else the opcode map.
OpcodeFromByteWithArch(byte, arch) ==
    IF IsSome(PrefixFromByte(byte))
    THEN MkOpcode(IdentPrefix(Unwrap(PrefixFromByte(byte))), NoOperands, None)
    ELSE IF IsSome(RexFromByte(byte))
    THEN MkOpcode(IdentRex(Unwrap(RexFromByte(byte))), NoOperands, None)
    ELSE OpcodeMap(byte, arch)

\* The errors.  path is the chain of enum variants from the outermost
\* wrapper to the innermost error; data are the bytes an opcode error carries.
Error(path, data, prefix) == [path |-> path, data |-> data, prefix |-> prefix]
NoError == Error(<< >>, << >>, "")
NotEnoughBytes(wrappers) == Error(wrappers \o <<"ReaderError", "NotEnoughBytes">>, << >>, "")

\* The result of an opcode resolution: Ok(opcode) with the reader's new
\* position, or Err(e).
OpcodeOk(opcode, pos) == [ok |-> TRUE, opcode |-> opcode, pos |-> pos, err |-> NoError]
OpcodeErr(err, pos) ==
    [ok |-> FALSE, opcode |-> MkOpcode(Ident("Unknown"), NoOperands, None),
     pos |-> pos, err |-> err]

\* The no-prefix escape path resolving an unrecognised second byte to
\* Unknown, as the one-byte map does.
EscapeNoPrefixUnknown(bytes, pos) ==
    LET r2 == ReaderRead(bytes, pos, 1)
        second_byte == r2.val[1]
    IN  IF ~r2.ok THEN OpcodeErr(NotEnoughBytes(<<"OpcodeError">>), r2.pos)
        ELSE CASE second_byte = 160 ->
                    OpcodeOk(MkOpcode(Ident("Push"), Ops1(OperandSegment("FS")), Some("ZO")), r2.pos)
               [] second_byte = 168 ->
                    OpcodeOk(MkOpcode(Ident("Push"), Ops1(OperandSegment("GS")), Some("ZO")), r2.pos)
               [] OTHER ->
                    OpcodeOk(MkOpcode(Ident("Unknown"), NoOperands, None), r2.pos)

\* with_prefix_arch after the escape code with no prefix accumulated.
EscapeNoPrefix(bytes, pos) ==
    LET r2 == ReaderRead(bytes, pos, 1)
        second_byte == r2.val[1]
    IN  IF ~r2.ok THEN OpcodeErr(NotEnoughBytes(<<"OpcodeError">>), r2.pos)
        ELSE CASE second_byte = 160 ->
                    OpcodeOk(MkOpcode(Ident("Push"), Ops1(OperandSegment("FS")), Some("ZO")), r2.pos)
               [] second_byte = 168 ->
                    OpcodeOk(MkOpcode(Ident("Push"), Ops1(OperandSegment("GS")), Some("ZO")), r2.pos)
               [] OTHER ->
                    OpcodeErr(Error(<<"OpcodeError", "InvalidOpcode">>, <<second_byte>>, ""), r2.pos)

\* The ENDBR pair with the two third bytes exchanged.
EscapeRepSwapped(first_byte, bytes, pos) ==
    LET r2 == ReaderRead(bytes, pos, 1)
        second_byte == r2.val[1]
        r3 == ReaderRead(bytes, r2.pos, 1)
        third_byte == r3.val[1]
    IN  IF ~r2.ok THEN OpcodeErr(NotEnoughBytes(<<"OpcodeError">>), r2.pos)
        ELSE IF second_byte # 30
        THEN OpcodeOk(MkOpcode(Ident("Unknown"), NoOperands, None), r2.pos)
        ELSE IF ~r3.ok THEN OpcodeErr(NotEnoughBytes(<<"OpcodeError">>), r3.pos)
        ELSE CASE third_byte = 250 ->
                    OpcodeOk(MkOpcode(Ident("EndBr32"), NoOperands, Some("ZO")), r3.pos)
               [] third_byte = 251 ->
                    OpcodeOk(MkOpcode(Ident("EndBr64"), NoOperands, Some("ZO")), r3.pos)
               [] OTHER ->
                    OpcodeErr(Error(<<"OpcodeError", "Invalid3ByteOpcode">>,
                                    <<first_byte, second_byte, third_byte>>, ""), r3.pos)

\* with_prefix_arch after the escape code with Rep as the first prefix.
EscapeRep(first_byte, bytes, pos) ==
    LET r2 == ReaderRead(bytes, pos, 1)
        second_byte == r2.val[1]
        r3 == ReaderRead(bytes, r2.pos, 1)
        third_byte == r3.val[1]
    IN  IF ~r2.ok THEN OpcodeErr(NotEnoughBytes(<<"OpcodeError">>), r2.pos)
        ELSE IF second_byte # 30
        THEN OpcodeOk(MkOpcode(Ident("Unknown"), NoOperands, None), r2.pos)
        ELSE IF ~r3.ok THEN OpcodeErr(NotEnoughBytes(<<"OpcodeError">>), r3.pos)
        ELSE CASE third_byte = 251 ->
                    OpcodeOk(MkOpcode(Ident("EndBr32"), NoOperands, Some("ZO")), r3.pos)
               [] third_byte = 250 ->
                    OpcodeOk(MkOpcode(Ident("EndBr64"), NoOperands, Some("ZO")), r3.pos)
               [] OTHER ->
                    OpcodeErr(Error(<<"OpcodeError", "Invalid3ByteOpcode">>,
                                    <<first_byte, second_byte, third_byte>>, ""), r3.pos)

\* Opcode::with_prefix_arch.
WithPrefixArch(bytes, pos, prefixs, arch) ==
    LET r1 == ReaderRead(bytes, pos, 1)
        first_byte == r1.val[1]
        prefix == prefixs[1]
    IN  IF ~r1.ok THEN OpcodeErr(NotEnoughBytes(<<"OpcodeError">>), r1.pos)
        ELSE IF first_byte # ESCAPE_CODE
        THEN OpcodeOk(OpcodeFromByteWithArch(first_byte, arch), r1.pos)
        ELSE IF Len(prefixs) = 0 THEN EscapeNoPrefix(bytes, r1.pos)
        ELSE CASE prefix = "RepNE" ->
                    OpcodeOk(MkOpcode(Ident("Unknown"), NoOperands, None), r1.pos)
               [] prefix = "Rep" -> EscapeRep(first_byte, bytes, r1.pos)
               [] prefix = "OpSize" ->
                    OpcodeOk(MkOpcode(Ident("Unknown"), NoOperands, None), r1.pos)
               [] OTHER ->
                    OpcodeErr(Error(<<"OpcodeError", "InvalidPrefix">>, << >>, prefix), r1.pos)

\* The operand templates and the encoding convert_with_ext_arch fills in.
ExtOperands(byte, arch) ==
    CASE byte \in {128, 130} -> Ops2(OperandFromMap("E", "B", arch), OperandFromMap("I", "B", arch))
      [] byte = 129 -> Ops2(OperandFromMap("E", "V", arch), OperandFromMap("I", "Z", arch))
      [] byte = 131 -> Ops2(OperandFromMap("E", "V", arch), OperandFromMap("I", "B", arch))
      [] byte = 255 -> Ops1(OperandFromMap("E", "V", arch))

\* The tables with Or and Adc, and Inc and Dec, exchanged.
ExtIdentSwapped(byte, ext) ==
    IF byte \in {128, 129, 130, 131}
    THEN <<"Add", "Adc", "Or", "Sbb", "And", "Sub", "Xor", "Cmp">>[ext + 1]
    ELSE <<"Dec", "Inc", "CallNear", "CallFar", "JmpNear", "JmpFar", "Push", "">>[ext + 1]

\* The extension -> mnemonic tables of convert_with_ext_arch; "" stands for
\* the `_ => unreachable!()` arm.
ExtIdent(byte, ext) ==
    IF byte \in {128, 129, 130, 131}
    THEN <<"Add", "Or", "Adc", "Sbb", "And", "Sub", "Xor", "Cmp">>[ext + 1]
    ELSE <<"Inc", "Dec", "CallNear", "CallFar", "JmpNear", "JmpFar", "Push", "">>[ext + 1]

\* convert_with_ext_arch leaving the extension entries without encoding.
ConvertWithExtArchNoEncoding(opcode, ext, arch) ==
    LET byte == opcode.ident.byte
    IN  IF ExtIdent(byte, ext) = ""
        THEN [panic |-> TRUE, opcode |-> opcode]
        ELSE [panic |-> FALSE,
              opcode |-> MkOpcode(Ident(ExtIdent(byte, ext)), ExtOperands(byte, arch),
                                  None)]

\* Opcode::convert_with_ext_arch on a NeedsModRMExtension(byte) opcode:
\* the opcode, or a panic.
ConvertWithExtArch(opcode, ext, arch) ==
    LET byte == opcode.ident.byte
    IN  IF ExtIdent(byte, ext) = ""
        THEN [panic |-> TRUE, opcode |-> opcode]
        ELSE [panic |-> FALSE,
              opcode |-> MkOpcode(Ident(ExtIdent(byte, ext)), ExtOperands(byte, arch),
                                  Some("MI"))]

(***************************************************************************)
(* ModR/M and SIB decoder (modrm.rs).                                      *)
(***************************************************************************)
\* enum EffAddrType.
EffAddrReg(reg) == [t |-> "Reg", reg |-> reg]
EffAddrSib == [t |-> "Sib", reg |-> ""]
EffAddrNone == [t |-> "None", reg |-> ""]

\* enum Addressing over EffAddr16Bit / EffAddr32Bit / EffAddr64Bit: one record
\* shape; the 16-bit form uses maybe_reg1 / maybe_reg2, the others eff_addr.
MkAddressing(form, eff_addr, maybe_reg1, maybe_reg2, maybe_disp, mod_addr) ==
    [form |-> form, eff_addr |-> eff_addr, maybe_reg1 |-> maybe_reg1,
     maybe_reg2 |-> maybe_reg2, maybe_disp |-> maybe_disp, mod_addr |-> mod_addr]

\* impl From<u8> for EffAddr16Bit.
EffAddr16BitFrom(value) ==
    LET r_m == RmBits(value)
        mod_addr == ModBits(value)
        pair == <<<<Some("BX"), Some("SI")>>, <<Some("BX"), Some("DI")>>,
                  <<Some("BP"), Some("SI")>>, <<Some("BP"), Some("DI")>>,
                  <<Some("SI"), None>>, <<Some("DI"), None>>,
                  <<Some("BP"), None>>, <<Some("BX"), None>>>>[r_m + 1]
        t == CASE mod_addr = 0 ->
                    IF r_m = 6 THEN <<None, None, Some("Bit16")>>
                    ELSE <<pair[1], pair[2], None>>
               [] mod_addr = 1 -> <<pair[1], pair[2], Some("Bit8")>>
               [] mod_addr = 2 -> <<pair[1], pair[2], Some("Bit16")>>
               [] mod_addr = 3 -> <<Some(Rm32Regs[r_m + 1]), None, None>>
    IN  MkAddressing("EffAddr16Bit", EffAddrNone, t[1], t[2], t[3], mod_addr)

\* The 32-bit table without its mod = 00, r/m = 101 entry: EBP as a base.
EffAddr32BitFromNoDisp32(value) ==
    LET r_m == RmBits(value)
        mod_addr == ModBits(value)
        t == CASE mod_addr = 0 ->
                    (CASE r_m = 4 -> <<EffAddrSib, None>>
                       [] OTHER -> <<EffAddrReg(Rm32Regs[r_m + 1]), None>>)
               [] mod_addr = 1 ->
                    IF r_m = 4 THEN <<EffAddrSib, Some("Bit8")>>
                    ELSE <<EffAddrReg(Rm32Regs[r_m + 1]), Some("Bit8")>>
               [] mod_addr = 2 ->
                    IF r_m = 4 THEN <<EffAddrSib, Some("Bit32")>>
                    ELSE <<EffAddrReg(Rm32Regs[r_m + 1]), Some("Bit32")>>
               [] mod_addr = 3 -> <<EffAddrReg(Rm32Regs[r_m + 1]), None>>
    IN  MkAddressing("EffAddr32Bit", t[1], None, None, t[2], mod_addr)

\* impl From<u8> for EffAddr32Bit.
EffAddr32BitFrom(value) ==
    LET r_m == RmBits(value)
        mod_addr == ModBits(value)
        t == CASE mod_addr = 0 ->
                    (CASE r_m = 4 -> <<EffAddrSib, None>>
                       [] r_m = 5 -> <<EffAddrNone, Some("Bit32")>>
                       [] OTHER -> <<EffAddrReg(Rm32Regs[r_m + 1]), None>>)
               [] mod_addr = 1 ->
                    IF r_m = 4 THEN <<EffAddrSib, Some("Bit8")>>
                    ELSE <<EffAddrReg(Rm32Regs[r_m + 1]), Some("Bit8")>>
               [] mod_addr = 2 ->
                    IF r_m = 4 THEN <<EffAddrSib, Some("Bit32")>>
                    ELSE <<EffAddrReg(Rm32Regs[r_m + 1]), Some("Bit32")>>
               [] mod_addr = 3 -> <<EffAddrReg(Rm32Regs[r_m + 1]), None>>
    IN  MkAddressing("EffAddr32Bit", t[1], None, None, t[2], mod_addr)

\* The 64-bit table with the extended r/m 1100 taken as the base R12 instead
\* of the SIB form.
EffAddr64BitFromByteWithRexR12Base(value, maybe_rex) ==
    LET r_m == IF IsSome(maybe_rex) THEN Unwrap(maybe_rex).b * 8 + RmBits(value)
               ELSE RmBits(value)
        mod_addr == ModBits(value)
        t == CASE mod_addr = 0 ->
                    (CASE r_m = 4 -> <<EffAddrSib, None>>
                       [] r_m = 5 -> <<EffAddrNone, Some("Bit32")>>
                       [] r_m = 13 -> <<EffAddrReg("R13"), Some("Bit32")>>
                       [] OTHER -> <<EffAddrReg(Rm64Regs[r_m + 1]), None>>)
               [] mod_addr = 1 ->
                    IF r_m = 4 THEN <<EffAddrSib, Some("Bit8")>>
                    ELSE <<EffAddrReg(Rm64Regs[r_m + 1]), Some("Bit8")>>
               [] mod_addr = 2 ->
                    IF r_m = 4 THEN <<EffAddrSib, Some("Bit32")>>
                    ELSE <<EffAddrReg(Rm64Regs[r_m + 1]), Some("Bit32")>>
               [] mod_addr = 3 -> <<EffAddrReg(Rm64Regs[r_m + 1]), None>>
    IN  MkAddressing("EffAddr64Bit", t[1], None, None, t[2], mod_addr)

\* EffAddr64Bit::from_byte_with_rex: r/m is extended with REX.B first.
EffAddr64BitFromByteWithRex(value, maybe_rex) ==
    LET r_m == IF IsSome(maybe_rex) THEN Unwrap(maybe_rex).b * 8 + RmBits(value)
               ELSE RmBits(value)
        mod_addr == ModBits(value)
        t == CASE mod_addr = 0 ->
                    (CASE r_m \in {4, 12} -> <<EffAddrSib, None>>
                       [] r_m = 5 -> <<EffAddrNone, Some("Bit32")>>
                       [] r_m = 13 -> <<EffAddrReg("R13"), Some("Bit32")>>
                       [] OTHER -> <<EffAddrReg(Rm64Regs[r_m + 1]), None>>)
               [] mod_addr = 1 ->
                    IF r_m \in {4, 12} THEN <<EffAddrSib, Some("Bit8")>>
                    ELSE <<EffAddrReg(Rm64Regs[r_m + 1]), Some("Bit8")>>
               [] mod_addr = 2 ->
                    IF r_m \in {4, 12} THEN <<EffAddrSib, Some("Bit32")>>
                    ELSE <<EffAddrReg(Rm64Regs[r_m + 1]), Some("Bit32")>>
               [] mod_addr = 3 -> <<EffAddrReg(Rm64Regs[r_m + 1]), None>>
    IN  MkAddressing("EffAddr64Bit", t[1], None, None, t[2], mod_addr)

\* ModRM::from_byte_with_arch: struct ModRM(Reg, Addressing).  The reg field
\* is extended with REX.R in Arch64 only; no architecture means 32-bit
\* addressing, while Reg::from_byte_with_arch then takes Arch64.
ModRMFromByteWithArch(value, maybe_arch, maybe_rex) ==
    LET reg == RegBits(value)
        arch == IF IsSome(maybe_arch) THEN Unwrap(maybe_arch) ELSE "None"
        reg2 == IF arch = "Arch64" /\ IsSome(maybe_rex)
                THEN Unwrap(maybe_rex).r * 8 + reg ELSE reg
        addressing ==
            CASE arch = "Arch16" -> EffAddr16BitFrom(value)
              [] arch = "Arch32" -> EffAddr32BitFrom(value)
              [] arch = "Arch64" -> EffAddr64BitFromByteWithRex(value, maybe_rex)
              [] arch = "None" -> EffAddr32BitFrom(value)
    IN  [reg |-> RegFromByteWithArch(reg2, maybe_arch), addressing |-> addressing]

\* Addressing::has_sib.
HasSib(addressing) ==
    addressing.form # "EffAddr16Bit" /\ addressing.eff_addr.t = "Sib"

\* Addressing::rm_reg.
RmReg(addressing) ==
    IF addressing.form = "EffAddr16Bit" THEN addressing.maybe_reg1
    ELSE IF addressing.eff_addr.t = "Reg" THEN Some(addressing.eff_addr.reg)
    ELSE None

\* Addressing::rm_mem: the 16-bit form panics.
RmMem(addressing) ==
    IF addressing.form = "EffAddr16Bit" THEN [panic |-> TRUE, eff_addr |-> EffAddrNone]
    ELSE [panic |-> FALSE, eff_addr |-> addressing.eff_addr]

\* EffAddrType::convert_with_addrsize.
EffAddrConvertWithAddrsize(eff_addr, addr_size) ==
    IF eff_addr.t = "Reg"
    THEN EffAddrReg(RegConvertWithOpsize(eff_addr.reg, OpSizeFromAddrSize(addr_size)))
    ELSE eff_addr

\* impl SizedOperand for EffAddrType.
EffAddrSize(eff_addr) == IF eff_addr.t = "Reg" THEN RegSize(eff_addr.reg) ELSE "CpuMode"

\* enum Sib over Sib32 / Sib64.
MkSib(form, base, scaled_index, scale) ==
    [form |-> form, base |-> base, scaled_index |-> scaled_index, scale |-> scale]

\* The scale factor of the four `match idx` tables: none for scale 00.
SibScale(scale) ==
    CASE scale = 0 -> None [] scale = 1 -> Some(2) [] scale = 2 -> Some(4)
      [] scale = 3 -> Some(8)

\* The 32-bit SIB table without its index = 100 entries: ESP as an index.
Sib32FromEspIndex(value) ==
    LET scale == Bits(value, 6, 2)
        idx == Bits(value, 3, 3)
        base == Bits(value, 0, 3)
    IN  MkSib("Sib32", Some(Rm32Regs[base + 1]), Some(Rm32Regs[idx + 1]), SibScale(scale))

\* impl From<u8> for Sib32.
Sib32From(value) ==
    LET scale == Bits(value, 6, 2)
        idx == Bits(value, 3, 3)
        base == Bits(value, 0, 3)
    IN  IF idx = 4 THEN MkSib("Sib32", Some(Rm32Regs[base + 1]), None, None)
        ELSE MkSib("Sib32", Some(Rm32Regs[base + 1]), Some(Rm32Regs[idx + 1]),
                   SibScale(scale))

\* Sib64::from_byte_with_rex: idx is extended with REX.X and base with REX.B;
\* only the extended index 0b0100 has no scaled index (0b1100 is R12).
Sib64FromByteWithRex(value, maybe_rex) ==
    LET scale == Bits(value, 6, 2)
        idx == IF IsSome(maybe_rex) THEN Unwrap(maybe_rex).x * 8 + Bits(value, 3, 3)
               ELSE Bits(value, 3, 3)
        base == IF IsSome(maybe_rex) THEN Unwrap(maybe_rex).b * 8 + Bits(value, 0, 3)
                ELSE Bits(value, 0, 3)
    IN  IF idx = 4 THEN MkSib("Sib64", Some(Rm64Regs[base + 1]), None, None)
        ELSE MkSib("Sib64", Some(Rm64Regs[base + 1]), Some(Rm64Regs[idx + 1]),
                   SibScale(scale))

\* impl SizedOperand for Sib.
SibSize(sib) == IF sib.form = "Sib32" THEN "U32" ELSE "U64"

\* Sib::convert_with_addrsize.
SibConvertWithAddrsize(sib, addr_size) ==
    LET op_size == OpSizeFromAddrSize(addr_size)
        conv(o) == IF IsSome(o) THEN Some(RegConvertWithOpsize(Unwrap(o), op_size)) ELSE None
    IN  MkSib(sib.form, conv(sib.base), conv(sib.scaled_index), sib.scale)

\* Whether a conversion above reached Reg::convert_with_opsize's unreachable!().
SibPanicked(sib) == sib.base = Some(PANIC) \/ sib.scaled_index = Some(PANIC)

(***************************************************************************)
(* Instruction::from_reader (inst.rs), as steps over a decoding record d   *)
(* whose fields are the locals of the function, the reader, and the        *)
(* outcome.  The fields opcode_bytes and imm_bytes are history: the bytes  *)
(* read by the with_prefix_arch call whose opcode is kept, and by          *)
(* Immediate::parse.                                                       *)
(***************************************************************************)
\* `let cpu_mode = match maybe_arch`.
CpuMode(d) == IF IsSome(d.maybe_arch) THEN Unwrap(d.maybe_arch) ELSE "Arch32"

\* enum ResolvedOperand, one record shape for the five variants.
ResolvedImmediate(imm) ==
    [tag |-> "Immediate", imm |-> Some(imm), reg |-> "", eff_addr |-> EffAddrNone,
     sib |-> None, disp |-> None]
ResolvedReg(reg) ==
    [tag |-> "Reg", imm |-> None, reg |-> reg, eff_addr |-> EffAddrNone,
     sib |-> None, disp |-> None]
ResolvedSegment(seg) ==
    [tag |-> "Segment", imm |-> None, reg |-> seg, eff_addr |-> EffAddrNone,
     sib |-> None, disp |-> None]
ResolvedMem(eff_addr, sib, disp) ==
    [tag |-> "Mem", imm |-> None, reg |-> "", eff_addr |-> eff_addr,
     sib |-> sib, disp |-> disp]
ResolvedToBeDecided ==
    [tag |-> "ToBeDecided", imm |-> None, reg |-> "", eff_addr |-> EffAddrNone,
     sib |-> None, disp |-> None]

\* impl SizedOperand for ResolvedOperand.
ResolvedSize(res_op) ==
    CASE res_op.tag = "Immediate" -> ImmSize(Unwrap(res_op.imm))
      [] res_op.tag = "Reg" -> RegSize(res_op.reg)
      [] res_op.tag = "Mem" ->
            IF EffAddrSize(res_op.eff_addr) = "CpuMode" /\ IsSome(res_op.sib)
            THEN SibSize(Unwrap(res_op.sib))
            ELSE EffAddrSize(res_op.eff_addr)
      [] OTHER -> "CpuMode"

\* The state on entry to from_reader, for a reader over `bytes` at `pos`:
\* the locals as lines 153-155 and 219-223, 289-301 declare them.  entry,
\* parser_insts and parse_result belong to the caller (dis.rs).
StartAt(bytes, maybe_arch, pos) ==
    [bytes |-> bytes, maybe_arch |-> maybe_arch, start |-> pos, pos |-> pos,
     pc |-> "first_opcode", prefixs |-> << >>, prefix_idx |-> 0, maybe_rex |-> None,
     opcode |-> MkOpcode(Ident("Unknown"), NoOperands, None),
     maybe_modrm |-> None, maybe_sib |-> None, maybe_disp |-> None,
     resolved_operands |-> <<None, None, None, None>>,
     op_size_override |-> "CpuMode", addr_size_override |-> "Addr32Bit", idx |-> 0,
     result |-> "running", err |-> NoError, opcode_bytes |-> 0, imm_bytes |-> 0,
     entry |-> "from_reader", parser_insts |-> 0, parse_result |-> "none"]

\* `?` on an Err(e): from_reader returns Err(e), the reader stays where the
\* failed call left it.
Fail(d, err, pos) == [d EXCEPT !.pc = "done", !.result = "err", !.err = err, !.pos = pos]

\* A panic!() / unreachable!() is reached.
Panic(d) == [d EXCEPT !.pc = "done", !.result = "panic"]

\* One call `Opcode::with_prefix_arch(reader, &prefixs, cpu_mode)?` whose
\* result replaces the opcode at hand, then control moves to `next`.
ReadOpcode(d, next) ==
    LET r == WithPrefixArch(d.bytes, d.pos, d.prefixs, CpuMode(d))
    IN  IF ~r.ok THEN Fail(d, r.err, r.pos)
        ELSE [d EXCEPT !.opcode = r.opcode, !.pos = r.pos, !.pc = next,
                       !.opcode_bytes = r.pos - d.pos]

\* Line 163: the first opcode.
StepFirstOpcode(d) == ReadOpcode(d, "prefix_loop")

\* Lines 166-174: the loop test and one iteration of the prefix loop.
\* The prefix loop leaving after four prefixes instead of three.
StepPrefixLoopCap4(d) ==
    IF d.opcode.ident.t # "Prefix" THEN [d EXCEPT !.pc = "second_opcode"]
    ELSE LET pushed == [d EXCEPT !.prefixs = Append(d.prefixs, d.opcode.ident.prefix),
                                 !.prefix_idx = d.prefix_idx + 1]
         IN  ReadOpcode(pushed, IF pushed.prefix_idx = 4 THEN "second_opcode"
                                ELSE "prefix_loop")

StepPrefixLoop(d) ==
    IF d.opcode.ident.t # "Prefix" THEN [d EXCEPT !.pc = "second_opcode"]
    ELSE LET pushed == [d EXCEPT !.prefixs = Append(d.prefixs, d.opcode.ident.prefix),
                                 !.prefix_idx = d.prefix_idx + 1]
         IN  ReadOpcode(pushed, IF pushed.prefix_idx = 3 THEN "second_opcode"
                                ELSE "prefix_loop")

\* Lines 177-181: an opcode that is still a prefix is replaced by the next
\* one, without being pushed.
StepSecondOpcode(d) ==
    IF d.opcode.ident.t = "Prefix" THEN ReadOpcode(d, "third_opcode")
    ELSE [d EXCEPT !.pc = "third_opcode"]

\* Lines 185-196: a REX opcode is kept in maybe_rex and replaced by the next one.
StepThirdOpcode(d) ==
    IF d.opcode.ident.t = "Rex"
    THEN ReadOpcode([d EXCEPT !.maybe_rex = d.opcode.ident.rex], "extension")
    ELSE [d EXCEPT !.pc = "extension"]

\* The extension stage left out: the opcode goes on as it is.
StepExtensionSkipped(d) == [d EXCEPT !.pc = "modrm"]

\* Lines 201-209: the extension from the peeked ModR/M byte.
StepExtension(d) ==
    IF d.opcode.ident.t # "NeedsModRMExtension" THEN [d EXCEPT !.pc = "modrm"]
    ELSE LET r == ReaderPeek(d.bytes, d.pos, 1)
             reg == Bits(r.val[1], 3, 3)
             c == ConvertWithExtArch(d.opcode, reg, CpuMode(d))
         IN  IF ~r.ok THEN Fail(d, NotEnoughBytes(<< >>), d.pos)
             ELSE IF c.panic THEN Panic(d)
             ELSE [d EXCEPT !.opcode = c.opcode, !.pc = "modrm"]

\* The SIB stage without the mod = 00 rule: an EBP / RBP base is kept.
ReadSibKeepsBase(d, modrm, pos) ==
    LET arch == IF IsSome(d.maybe_arch) THEN Unwrap(d.maybe_arch) ELSE "None"
        r == ReaderRead(d.bytes, pos, 1)
        sib == IF arch = "Arch32" THEN Sib32From(r.val[1])
               ELSE Sib64FromByteWithRex(r.val[1], d.maybe_rex)
    IN  IF ~(arch \in {"Arch32", "Arch64"} /\ HasSib(modrm.addressing))
        THEN [ok |-> TRUE, pos |-> pos, modrm |-> modrm, maybe_sib |-> None]
        ELSE IF ~r.ok
        THEN [ok |-> FALSE, pos |-> r.pos, modrm |-> modrm, maybe_sib |-> None]
        ELSE [ok |-> TRUE, pos |-> r.pos, modrm |-> modrm, maybe_sib |-> Some(sib)]

\* Lines 233-276: the SIB byte after a ModR/M byte, when maybe_arch is
\* Some(Arch32) or Some(Arch64) and the addressing form asks for one.  With
\* mod = 00 and a base of EBP / RBP the base is dropped and the displacement
\* becomes 32 bits.  [ok, pos, modrm, maybe_sib].
ReadSib(d, modrm, pos) ==
    LET arch == IF IsSome(d.maybe_arch) THEN Unwrap(d.maybe_arch) ELSE "None"
        r == ReaderRead(d.bytes, pos, 1)
        sib == IF arch = "Arch32" THEN Sib32From(r.val[1])
               ELSE Sib64FromByteWithRex(r.val[1], d.maybe_rex)
        no_base == modrm.addressing.mod_addr = 0
                   /\ sib.base = Some(IF arch = "Arch32" THEN "EBP" ELSE "RBP")
    IN  IF ~(arch \in {"Arch32", "Arch64"} /\ HasSib(modrm.addressing))
        THEN [ok |-> TRUE, pos |-> pos, modrm |-> modrm, maybe_sib |-> None]
        ELSE IF ~r.ok
        THEN [ok |-> FALSE, pos |-> r.pos, modrm |-> modrm, maybe_sib |-> None]
        ELSE IF no_base
        THEN [ok |-> TRUE, pos |-> r.pos,
              modrm |-> [modrm EXCEPT !.addressing.maybe_disp = Some("Bit32")],
              maybe_sib |-> Some([sib EXCEPT !.base = None])]
        ELSE [ok |-> TRUE, pos |-> r.pos, modrm |-> modrm, maybe_sib |-> Some(sib)]

\* The ModR/M stage entered for every opcode that has an encoding at all.
StepModRMForEveryEncoding(d) ==
    LET r == ReaderRead(d.bytes, d.pos, 1)
        modrm == ModRMFromByteWithArch(r.val[1], d.maybe_arch, d.maybe_rex)
        s == ReadSib(d, modrm, r.pos)
        disp_arch == s.modrm.addressing.maybe_disp
        rd == DispArchRead(Unwrap(disp_arch), d.bytes, s.pos)
    IN  IF ~IsSome(d.opcode.encoding)
        THEN [d EXCEPT !.pc = "operands_init"]
        ELSE IF ~r.ok THEN Fail(d, NotEnoughBytes(<< >>), r.pos)
        ELSE IF ~s.ok THEN Fail(d, NotEnoughBytes(<< >>), s.pos)
        ELSE IF IsNone(disp_arch)
        THEN [d EXCEPT !.pos = s.pos, !.maybe_modrm = Some(s.modrm),
                       !.maybe_sib = s.maybe_sib, !.pc = "operands_init"]
        ELSE IF ~rd.ok THEN Fail(d, NotEnoughBytes(<<"DispError">>), rd.pos)
        ELSE [d EXCEPT !.pos = rd.pos, !.maybe_modrm = Some(s.modrm),
                       !.maybe_sib = s.maybe_sib, !.maybe_disp = Some(rd.val),
                       !.pc = "operands_init"]

\* Lines 211-286: the ModR/M byte, the SIB byte and the displacement, read
\* when the encoding is one of M, MI, MR, RM.
StepModRM(d) ==
    LET r == ReaderRead(d.bytes, d.pos, 1)
        modrm == ModRMFromByteWithArch(r.val[1], d.maybe_arch, d.maybe_rex)
        s == ReadSib(d, modrm, r.pos)
        disp_arch == s.modrm.addressing.maybe_disp
        rd == DispArchRead(Unwrap(disp_arch), d.bytes, s.pos)
    IN  IF ~(IsSome(d.opcode.encoding)
             /\ Unwrap(d.opcode.encoding) \in {"M", "MI", "MR", "RM"})
        THEN [d EXCEPT !.pc = "operands_init"]
        ELSE IF ~r.ok THEN Fail(d, NotEnoughBytes(<< >>), r.pos)
        ELSE IF ~s.ok THEN Fail(d, NotEnoughBytes(<< >>), s.pos)
        ELSE IF IsNone(disp_arch)
        THEN [d EXCEPT !.pos = s.pos, !.maybe_modrm = Some(s.modrm),
                       !.maybe_sib = s.maybe_sib, !.pc = "operands_init"]
        ELSE IF ~rd.ok THEN Fail(d, NotEnoughBytes(<<"DispError">>), rd.pos)
        ELSE [d EXCEPT !.pos = rd.pos, !.maybe_modrm = Some(s.modrm),
                       !.maybe_sib = s.maybe_sib, !.maybe_disp = Some(rd.val),
                       !.pc = "operands_init"]

\* Lines 288-301: the sizes operand resolution starts from.
StepOperandsInit(d) ==
    [d EXCEPT !.op_size_override = OpSizeFromCpuOpcode(CpuMode(d), d.opcode.ident),
              !.addr_size_override = AddrSizeFromArch(CpuMode(d)),
              !.idx = 0, !.pc = "operand"]

\* `overridable_op_size` and `overridable_addr_size`.
OverridableOpSize == {"CpuMode", "U16", "U32", "U64"}
OverridableAddrSize == {"Addr64Bit"}

\* The operand size with the two overrides in the other order: the 0x66
\* prefix wins over REX.W.
OpSizeOverridePrefixWins(d) ==
    IF "OpSize" \in {d.prefixs[i] : i \in DOMAIN d.prefixs}
    THEN (IF CpuMode(d) = "Arch16" THEN "U32" ELSE "U16")
    ELSE IF IsSome(d.maybe_rex) /\ Unwrap(d.maybe_rex).w = 1 THEN "U64"
    ELSE d.op_size_override

\* Lines 309-334: the operand size in force for an operand.
OpSizeOverrideFor(d) ==
    IF IsSome(d.maybe_rex) /\ Unwrap(d.maybe_rex).w = 1 THEN "U64"
    ELSE IF "OpSize" \in {d.prefixs[i] : i \in DOMAIN d.prefixs}
    THEN (IF CpuMode(d) = "Arch16" THEN "U32" ELSE "U16")
    ELSE d.op_size_override

\* Lines 320-326: the address size in force; the prefix in 16-bit mode panics.
HasAddrSizePrefix(d) == "AddrSize" \in {d.prefixs[i] : i \in DOMAIN d.prefixs}
AddrSizeOverrideFor(d) ==
    IF HasAddrSizePrefix(d) THEN "Addr32Bit" ELSE d.addr_size_override

\* Lines 367-375: the architecture a register in the opcode byte is named in.
RegInOpcodeArch(cpu_mode, op_size) ==
    CASE op_size = "U16" -> "Arch16"
      [] cpu_mode = "Arch32" /\ op_size = "U32" -> "Arch32"
      [] OTHER -> "Arch64"

\* The end of one iteration of the operand loop: the operand is stored, and
\* after the fourth one from_reader returns Ok (lines 442-451).
Resolved(d, res_op) ==
    LET e == [d EXCEPT !.resolved_operands[d.idx + 1] = Some(res_op),
                       !.idx = d.idx + 1]
    IN  IF e.idx = 4 THEN [e EXCEPT !.pc = "done", !.result = "ok"] ELSE e

\* Lines 340-356: an immediate operand, widened to the size of the operand
\* resolved before it when that one is larger.
ResolveImmediate(d, op) ==
    LET r == IF op.size \in OverridableOpSize
             THEN ImmParse(d.op_size_override, d.bytes, d.pos)
             ELSE ImmParse(op.size, d.bytes, d.pos)
        prev == d.resolved_operands[d.idx]
        imm == IF d.idx > 0 /\ IsSome(prev)
                  /\ OpSizeGt(ResolvedSize(Unwrap(prev)), ImmSize(r.val))
               THEN ImmConvertWithOpsize(r.val, ResolvedSize(Unwrap(prev)))
               ELSE r.val
    IN  IF ~r.ok THEN Fail(d, NotEnoughBytes(<<"ImmError">>), r.pos)
        ELSE Resolved([d EXCEPT !.pos = r.pos,
                                !.imm_bytes = d.imm_bytes + (r.pos - d.pos)],
                      ResolvedImmediate(imm))

\* Lines 358-379: a register named by the low three bits of the opcode byte.
ResolveRegInOpcode(d, op) ==
    LET lower_3bits == op.byte % 8
        reg_64bit_encoding == IF IsSome(d.maybe_rex)
                              THEN lower_3bits + Unwrap(d.maybe_rex).b * 8
                              ELSE lower_3bits
        arch == RegInOpcodeArch(CpuMode(d), d.op_size_override)
    IN  Resolved(d, ResolvedReg(RegFamilyRegFromArch(reg_64bit_encoding, arch)))

\* The r/m operand resolved to a register whenever the addressing form names
\* one, whatever mod is.
ResolveModRMByRmReg(d, op) ==
    LET modrm == Unwrap(d.maybe_modrm)
        rm_reg == RmReg(modrm.addressing)
        reg == IF op.size \in OverridableOpSize
               THEN RegConvertWithOpsize(Unwrap(rm_reg), d.op_size_override)
               ELSE RegConvertWithOpsize(Unwrap(rm_reg), op.size)
        mem == RmMem(modrm.addressing)
        addr_size == IF op.addr \in OverridableAddrSize THEN d.addr_size_override
                     ELSE op.addr
        eff_addr == EffAddrConvertWithAddrsize(mem.eff_addr, addr_size)
        sib == IF IsSome(d.maybe_sib)
               THEN Some(SibConvertWithAddrsize(Unwrap(d.maybe_sib), addr_size))
               ELSE None
    IN  IF IsNone(d.maybe_modrm) THEN Fail(d, Error(<<"InvalidModRMError">>, << >>, ""), d.pos)
        ELSE IF IsSome(rm_reg)
        THEN (IF reg = PANIC THEN Panic(d) ELSE Resolved(d, ResolvedReg(reg)))
        ELSE IF mem.panic THEN Panic(d)
        ELSE IF eff_addr.reg = PANIC THEN Panic(d)
        ELSE IF IsSome(sib) /\ SibPanicked(Unwrap(sib)) THEN Panic(d)
        ELSE Resolved(d, ResolvedMem(eff_addr, sib, d.maybe_disp))

\* Lines 390-426: the r/m operand, a register for mod = 11 and memory otherwise.
ResolveModRM(d, op) ==
    LET modrm == Unwrap(d.maybe_modrm)
        rm_reg == RmReg(modrm.addressing)
        reg == IF op.size \in OverridableOpSize
               THEN RegConvertWithOpsize(Unwrap(rm_reg), d.op_size_override)
               ELSE RegConvertWithOpsize(Unwrap(rm_reg), op.size)
        mem == RmMem(modrm.addressing)
        addr_size == IF op.addr \in OverridableAddrSize THEN d.addr_size_override
                     ELSE op.addr
        eff_addr == EffAddrConvertWithAddrsize(mem.eff_addr, addr_size)
        sib == IF IsSome(d.maybe_sib)
               THEN Some(SibConvertWithAddrsize(Unwrap(d.maybe_sib), addr_size))
               ELSE None
    IN  IF IsNone(d.maybe_modrm) THEN Fail(d, Error(<<"InvalidModRMError">>, << >>, ""), d.pos)
        ELSE IF modrm.addressing.mod_addr = 3
        THEN (IF IsNone(rm_reg) THEN Fail(d, Error(<<"InvalidModRMError">>, << >>, ""), d.pos)
              ELSE IF reg = PANIC THEN Panic(d)
              ELSE Resolved(d, ResolvedReg(reg)))
        ELSE IF mem.panic THEN Panic(d)
        ELSE IF eff_addr.reg = PANIC THEN Panic(d)
        ELSE IF IsSome(sib) /\ SibPanicked(Unwrap(sib)) THEN Panic(d)
        ELSE Resolved(d, ResolvedMem(eff_addr, sib, d.maybe_disp))

\* Lines 427-437: the reg operand of the ModR/M byte.
ResolveModReg(d, op) ==
    LET modrm == Unwrap(d.maybe_modrm)
        reg == IF op.size \in OverridableOpSize
               THEN RegConvertWithOpsize(modrm.reg, d.op_size_override)
               ELSE RegConvertWithOpsize(modrm.reg, op.size)
    IN  IF IsNone(d.maybe_modrm) THEN Fail(d, Error(<<"InvalidModRMError">>, << >>, ""), d.pos)
        ELSE IF reg = PANIC THEN Panic(d)
        ELSE Resolved(d, ResolvedReg(reg))

\* The operand loop without lines 309-334: the sizes are never overridden.
StepOperandNoOverride(d) ==
    LET maybe_op == d.opcode.operands[d.idx + 1]
        op == Unwrap(maybe_op)
    IN  IF IsNone(maybe_op)
        THEN (IF d.idx + 1 = 4 THEN [d EXCEPT !.idx = 4, !.pc = "done", !.result = "ok"]
              ELSE [d EXCEPT !.idx = d.idx + 1])
        ELSE IF HasAddrSizePrefix(d) /\ CpuMode(d) = "Arch16" THEN Panic(d)
        ELSE CASE op.tag = "Immediate" -> ResolveImmediate(d, op)
               [] op.tag = "RegInOpcode" -> ResolveRegInOpcode(d, op)
               [] op.tag = "RegFamily" ->
                    Resolved(d, ResolvedReg(RegFamilyRegFrom(op.reg, d.op_size_override)))
               [] op.tag = "Segment" -> Resolved(d, ResolvedSegment(op.reg))
               [] op.tag = "Reg" -> Resolved(d, ResolvedReg(op.reg))
               [] op.tag = "ModRM" -> ResolveModRM(d, op)
               [] op.tag = "ModReg" -> ResolveModReg(d, op)
               [] OTHER -> Resolved(d, ResolvedToBeDecided)

\* Lines 303-440: one iteration of the operand loop, for operand idx.
StepOperand(d) ==
    LET maybe_op == d.opcode.operands[d.idx + 1]
        op == Unwrap(maybe_op)
        e == [d EXCEPT !.op_size_override = OpSizeOverrideFor(d),
                       !.addr_size_override = AddrSizeOverrideFor(d)]
    IN  IF IsNone(maybe_op)
        THEN (IF d.idx + 1 = 4 THEN [d EXCEPT !.idx = 4, !.pc = "done", !.result = "ok"]
              ELSE [d EXCEPT !.idx = d.idx + 1])
        ELSE IF HasAddrSizePrefix(d) /\ CpuMode(d) = "Arch16" THEN Panic(d)
        ELSE CASE op.tag = "Immediate" -> ResolveImmediate(e, op)
               [] op.tag = "RegInOpcode" -> ResolveRegInOpcode(e, op)
               [] op.tag = "RegFamily" ->
                    Resolved(e, ResolvedReg(RegFamilyRegFrom(op.reg, e.op_size_override)))
               [] op.tag = "Segment" -> Resolved(e, ResolvedSegment(op.reg))
               [] op.tag = "Reg" -> Resolved(e, ResolvedReg(op.reg))
               [] op.tag = "ModRM" -> ResolveModRM(e, op)
               [] op.tag = "ModReg" -> ResolveModReg(e, op)
               [] OTHER -> Resolved(e, ResolvedToBeDecided)

\* from_reader from its current step to its return, error or panic.
RECURSIVE Run(_)
Run(d) ==
    IF d.pc = "done" THEN d
    ELSE Run(CASE d.pc = "first_opcode" -> StepFirstOpcode(d)
               [] d.pc = "prefix_loop" -> StepPrefixLoop(d)
               [] d.pc = "second_opcode" -> StepSecondOpcode(d)
               [] d.pc = "third_opcode" -> StepThirdOpcode(d)
               [] d.pc = "extension" -> StepExtension(d)
               [] d.pc = "modrm" -> StepModRM(d)
               [] d.pc = "operands_init" -> StepOperandsInit(d)
               [] d.pc = "operand" -> StepOperand(d))

\* Instruction::from_reader on a reader over `bytes` at position `pos`.
FromReader(bytes, maybe_arch, pos) == Run(StartAt(bytes, maybe_arch, pos))

(***************************************************************************)
(* Disassembler::parse (dis.rs): the loop that calls from_reader.          *)
(***************************************************************************)
\* `while parser_insts < 20`.
MAX_INSTS == 20

\* Lines 45-49: parse never passes None, it passes Some(Arch64) instead.
DisArch(maybe_arch) == IF IsSome(maybe_arch) THEN maybe_arch ELSE Some("Arch64")

\* Lines 50 and 53: reader.start_recording()? and reader.stop_recording()?.
\* Neither body is among the sources, and the specification's byte-cursor
\* interface (section 6) does not list them: they belong to the rendering of
\* the consumed bytes.  They are taken to leave the cursor where it is and to
\* return Ok or Err; `ok` is the outcome.
StartRecording(d, ok) ==
    IF ok THEN d ELSE [d EXCEPT !.pc = "parse_done", !.parse_result = "err"]

StopRecording(d, ok) ==
    IF ok THEN d ELSE [d EXCEPT !.pc = "parse_done", !.parse_result = "err"]

\* The loop of parse with the prefixes of the previous call carried into
\* the next one.
StepParseLoopKeepsPrefixes(d, rec_ok) ==
    IF ~(d.parser_insts < MAX_INSTS /\ BytesUnread(d.bytes, d.pos) > 0)
    THEN [d EXCEPT !.pc = "parse_done", !.parse_result = "ok"]
    ELSE IF StartRecording(d, rec_ok).pc = "parse_done" THEN StartRecording(d, rec_ok)
    ELSE [StartAt(d.bytes, d.maybe_arch, d.pos) EXCEPT
              !.entry = "parse", !.parser_insts = d.parser_insts,
              !.parse_result = "running", !.prefixs = d.prefixs]

\* The loop of parse with the instruction cap left out of its test.
StepParseLoopNoCap(d, rec_ok) ==
    IF ~(BytesUnread(d.bytes, d.pos) > 0)
    THEN [d EXCEPT !.pc = "parse_done", !.parse_result = "ok"]
    ELSE IF StartRecording(d, rec_ok).pc = "parse_done" THEN StartRecording(d, rec_ok)
    ELSE [StartAt(d.bytes, d.maybe_arch, d.pos) EXCEPT
              !.entry = "parse", !.parser_insts = d.parser_insts,
              !.parse_result = "running"]

\* Line 44 and lines 45-51: the loop test, then either start_recording and
\* the next call of from_reader at the reader's position, or `Ok(())`.
StepParseLoop(d, rec_ok) ==
    IF ~(d.parser_insts < MAX_INSTS /\ BytesUnread(d.bytes, d.pos) > 0)
    THEN [d EXCEPT !.pc = "parse_done", !.parse_result = "ok"]
    ELSE IF StartRecording(d, rec_ok).pc = "parse_done" THEN StartRecording(d, rec_ok)
    ELSE [StartAt(d.bytes, d.maybe_arch, d.pos) EXCEPT
              !.entry = "parse", !.parser_insts = d.parser_insts,
              !.parse_result = "running"]

\* Lines 51-53: from_reader has returned; `?` ends parse on an error, a
\* panic unwinds through parse, an Instruction is counted and
\* stop_recording is called.
StepParseReturn(d, rec_ok) ==
    CASE d.result = "err" -> [d EXCEPT !.pc = "parse_done", !.parse_result = "err"]
      [] d.result = "panic" -> [d EXCEPT !.pc = "parse_done", !.parse_result = "panic"]
      [] d.result = "ok" ->
            StopRecording([d EXCEPT !.pc = "parse_loop",
                                    !.parser_insts = d.parser_insts + 1], rec_ok)

\* Disassembler::parse on entry, before the first loop test.
ParseStart(bytes, maybe_arch) ==
    [StartAt(bytes, DisArch(maybe_arch), 0) EXCEPT
         !.pc = "parse_loop", !.entry = "parse", !.parse_result = "running"]

(***************************************************************************)
(* The state machine.  The variables are the reader (bytes, pos), the      *)
(* arguments and locals of Instruction::from_reader under their source     *)
(* names, the position of control (pc), the outcome of the call (result,   *)
(* err), the caller's loop (entry, parser_insts, parse_result), and the    *)
(* history variables start, opcode_bytes and imm_bytes.  imm_orig, imm_cur *)
(* and imm_sizes follow an Immediate through its conversions, and          *)
(* last_read is the last Reader::read / Reader::peek call and its result.  *)
(***************************************************************************)
VARIABLES bytes, maybe_arch, start, pos, pc, prefixs, prefix_idx, maybe_rex, opcode,
          maybe_modrm, maybe_sib, maybe_disp, resolved_operands, op_size_override,
          addr_size_override, idx, result, err, opcode_bytes, imm_bytes,
          entry, parser_insts, parse_result,
          imm_orig, imm_cur, imm_sizes, last_read

decoder_vars == <<bytes, maybe_arch, start, pos, pc, prefixs, prefix_idx, maybe_rex,
                  opcode, maybe_modrm, maybe_sib, maybe_disp, resolved_operands,
                  op_size_override, addr_size_override, idx, result, err,
                  opcode_bytes, imm_bytes, entry, parser_insts, parse_result>>
imm_vars == <<imm_orig, imm_cur, imm_sizes>>
vars == <<decoder_vars, imm_vars, last_read>>

\* The decoding record of the current state.
Cur ==
    [bytes |-> bytes, maybe_arch |-> maybe_arch, start |-> start, pos |-> pos,
     pc |-> pc, prefixs |-> prefixs, prefix_idx |-> prefix_idx, maybe_rex |-> maybe_rex,
     opcode |-> opcode, maybe_modrm |-> maybe_modrm, maybe_sib |-> maybe_sib,
     maybe_disp |-> maybe_disp, resolved_operands |-> resolved_operands,
     op_size_override |-> op_size_override, addr_size_override |-> addr_size_override,
     idx |-> idx, result |-> result, err |-> err, opcode_bytes |-> opcode_bytes,
     imm_bytes |-> imm_bytes, entry |-> entry, parser_insts |-> parser_insts,
     parse_result |-> parse_result]

\* The next state is the decoding record d.
Apply(d) ==
    /\ bytes' = d.bytes /\ maybe_arch' = d.maybe_arch /\ start' = d.start
    /\ pos' = d.pos /\ pc' = d.pc /\ prefixs' = d.prefixs
    /\ prefix_idx' = d.prefix_idx /\ maybe_rex' = d.maybe_rex /\ opcode' = d.opcode
    /\ maybe_modrm' = d.maybe_modrm /\ maybe_sib' = d.maybe_sib
    /\ maybe_disp' = d.maybe_disp /\ resolved_operands' = d.resolved_operands
    /\ op_size_override' = d.op_size_override
    /\ addr_size_override' = d.addr_size_override /\ idx' = d.idx
    /\ result' = d.result /\ err' = d.err /\ opcode_bytes' = d.opcode_bytes
    /\ imm_bytes' = d.imm_bytes /\ entry' = d.entry
    /\ parser_insts' = d.parser_insts /\ parse_result' = d.parse_result

\* The state is the decoding record d (for Init).
Is(d) ==
    /\ bytes = d.bytes /\ maybe_arch = d.maybe_arch /\ start = d.start
    /\ pos = d.pos /\ pc = d.pc /\ prefixs = d.prefixs
    /\ prefix_idx = d.prefix_idx /\ maybe_rex = d.maybe_rex /\ opcode = d.opcode
    /\ maybe_modrm = d.maybe_modrm /\ maybe_sib = d.maybe_sib
    /\ maybe_disp = d.maybe_disp /\ resolved_operands = d.resolved_operands
    /\ op_size_override = d.op_size_override
    /\ addr_size_override = d.addr_size_override /\ idx = d.idx
    /\ result = d.result /\ err = d.err /\ opcode_bytes = d.opcode_bytes
    /\ imm_bytes = d.imm_bytes /\ entry = d.entry
    /\ parser_insts = d.parser_insts /\ parse_result = d.parse_result

\* enum Arch behind Option<Arch>.
MaybeArchs == {None, Some("Arch16"), Some("Arch32"), Some("Arch64")}

(***************************************************************************)
(* The input buffers.                                                      *)
(***************************************************************************)
\* The longest run of leading prefix bytes.
MaxPrefixes == 5
\* The bytes that follow a ModR/M byte: SIB, 32-bit displacement, 32-bit immediate.
MaxTail == 9
\* The longest run of one-byte instructions handed to Disassembler::parse.
MaxNops == 21

RECURSIVE Fill(_)
Fill(n) == IF n <= 0 THEN << >> ELSE Fill(n - 1) \o <<128 + n>>

PrefixSample == {OP_SIZE_OVERRIDE, ADDR_SIZE_OVERRIDE, REP, CS_SEG_OVERRIDE}
PrefixSeqs ==
    {Repeat(p, k) : p \in PrefixSample, k \in 0..MaxPrefixes}
    \cup {<<p, q>> : p \in PrefixSample, q \in PrefixSample}

\* Leading prefix bytes, an optional REX.W, an opcode, a short or a full tail.
FamPrefix ==
    {ps \o rx \o op \o tl :
        ps \in PrefixSeqs, rx \in {<< >>, <<72>>},
        op \in {<<144>>, <<49>>, <<83>>, <<5>>, <<15, 30, 250>>},
        tl \in {<< >>, <<192>> \o Fill(MaxTail)}}

\* ModR/M bytes (every mod, rm among 000 011 100 101, reg among 000 011 111),
\* SIB bytes, under an address-size prefix and REX bits.
ModRMSample == {m \in 0..255 : RmBits(m) \in {0, 3, 4, 5} /\ RegBits(m) \in {0, 3, 7}}
SibSample == {37, 99, 29}
FamModRM ==
    {ps \o rx \o <<op, m, sb>> \o Fill(MaxTail - 1) :
        ps \in {<< >>, <<ADDR_SIZE_OVERRIDE>>}, rx \in {<< >>, <<67>>, <<76>>},
        op \in {0, 1, 129, 141, 255}, m \in ModRMSample, sb \in SibSample}

\* The MR opcodes with CPU-mode-sized operands over every register pair.
FamMR == {<<op, m>> : op \in {1, 17, 33, 49}, m \in 192..255}

\* Every first byte, alone, with one more byte, and with a full tail.
FamOp ==
    {<<op>> \o tl : op \in 0..255,
                    tl \in {<< >>, <<192>>, <<5, 37>>, <<132>> \o Fill(MaxTail)}}

\* The escape byte, bare and after a prefix, with every following byte.
FamEscape ==
    {ps \o <<ESCAPE_CODE, t>> : ps \in {<< >>, <<REP>>, <<REPNE>>, <<LOCK>>}, t \in 0..255}
    \cup {<<REP, ESCAPE_CODE, 30, t>> : t \in 0..255}

\* Buffers named by the specification and the tests.
FamNamed ==
    {<<72, 137, 226>>, <<255, 248>>, <<72, 131, 228, 240>>, <<73, 137, 209>>,
     <<243, 15, 30, 250, 49, 237, 73, 137, 209, 94, 72, 137, 226, 72, 131, 228,
       240, 80, 84, 69>>}

\* The opcodes that take their mnemonic from the ModR/M reg field, with
\* every value of that field, in register and in memory form.
FamExt ==
    {<<op, mod * 64 + e * 8 + rm>> \o Fill(MaxTail) :
        op \in {128, 129, 130, 131, 255}, mod \in {0, 3}, e \in 0..7, rm \in {0, 3}}

\* Every ModR/M byte under every REX byte and without one, after opcode 0x01.
FamAllModRM ==
    {rx \o <<1, m>> \o Fill(MaxTail) :
        rx \in {<< >>} \cup {<<r>> : r \in 64..79}, m \in 0..255}

\* The operand-size prefix before byte-sized and CPU-mode-sized opcodes, with
\* and without a REX byte whose W bit is clear.
FamOpSize ==
    {<<OP_SIZE_OVERRIDE>> \o rx \o <<op, m>> \o Fill(MaxTail) :
        rx \in {<< >>, <<65>>, <<68>>}, op \in {0, 1, 128, 129, 131},
        m \in {0, 5, 192, 193, 216}}

Buffers ==
    FamPrefix \cup FamModRM \cup FamMR \cup FamOp \cup FamEscape \cup FamNamed
    \cup FamExt \cup FamAllModRM \cup FamOpSize

\* What Disassembler::parse is run on: instruction streams.
StreamBuffers ==
    FamNamed \cup FamMR \cup {Repeat(144, k) : k \in 0..MaxNops}
    \cup {<<49, 192>> \o ps \o tl :
              ps \in PrefixSeqs, tl \in {<<49, 192>>, <<49>>, <<15, 4>>}}
ParseBuffers == StreamBuffers \cup {<<49, 192>> \o b : b \in FamPrefix}

(***************************************************************************)
(* Specification Spec: from_reader called directly on a fresh reader, or   *)
(* by Disassembler::parse.                                                 *)
(***************************************************************************)
\* No immediate conversion is under way.
NoRead == [op |-> "none", ty |-> "", ok |-> FALSE, val |-> 0]
ImmIdle == imm_orig = None /\ imm_cur = None /\ imm_sizes = << >> /\ last_read = NoRead

Init ==
    /\ ImmIdle
    /\ \/ \E b \in Buffers, a \in MaybeArchs : Is(StartAt(b, a, 0))
       \/ \E b \in ParseBuffers, a \in MaybeArchs : Is(ParseStart(b, a))

\* The step to the record d, evaluated once.
Take(d) == (\E e \in {d} : Apply(e)) /\ UNCHANGED <<imm_vars, last_read>>

FirstOpcode == pc = "first_opcode" /\ Take(StepFirstOpcode(Cur))
PrefixLoop == pc = "prefix_loop" /\ Take(StepPrefixLoop(Cur))
SecondOpcode == pc = "second_opcode" /\ Take(StepSecondOpcode(Cur))
ThirdOpcode == pc = "third_opcode" /\ Take(StepThirdOpcode(Cur))
Extension == pc = "extension" /\ Take(StepExtension(Cur))
ModRMStage == pc = "modrm" /\ Take(StepModRM(Cur))
OperandsInit == pc = "operands_init" /\ Take(StepOperandsInit(Cur))
ResolveOperand == pc = "operand" /\ Take(StepOperand(Cur))
ParseLoop == pc = "parse_loop" /\ \E rec_ok \in BOOLEAN : Take(StepParseLoop(Cur, rec_ok))
ParseReturn ==
    pc = "done" /\ entry = "parse" /\ \E rec_ok \in BOOLEAN : Take(StepParseReturn(Cur, rec_ok))

Next ==
    \/ FirstOpcode
    \/ PrefixLoop
    \/ SecondOpcode
    \/ ThirdOpcode
    \/ Extension
    \/ ModRMStage
    \/ OperandsInit
    \/ ResolveOperand
    \/ ParseLoop
    \/ ParseReturn

Spec == Init /\ [][Next]_vars

(***************************************************************************)
(* Specification SpecParse: Disassembler::parse alone, on instruction      *)
(* streams, every step of which is eventually taken: the program runs on   *)
(* until parse returns.                                                    *)
(***************************************************************************)
InitParse ==
    /\ ImmIdle
    /\ \E b \in StreamBuffers, a \in MaybeArchs : Is(ParseStart(b, a))

SpecParse == InitParse /\ [][Next]_vars /\ WF_vars(Next)

(***************************************************************************)
(* Specification SpecSib: the SIB decoders applied to every byte under     *)
(* every REX value.  Specification SpecModRM: ModRM::from_byte_with_arch   *)
(* applied to every byte, architecture and REX value.                      *)
(***************************************************************************)
MaybeRexs == {None} \cup {RexFromByte(b) : b \in 64..79}

InitSib ==
    /\ ImmIdle
    /\ \E b \in 0..255, a \in {Some("Arch32"), Some("Arch64")}, rex \in MaybeRexs :
          Is([StartAt(<<b>>, a, 0) EXCEPT !.pc = "sib_from", !.maybe_rex = rex,
                                          !.entry = "sib"])

\* Lines 240-241 and 256-258 of from_reader: the SIB byte read and decoded.
SibFrom ==
    /\ pc = "sib_from"
    /\ Take([Cur EXCEPT
                !.pos = 1, !.pc = "unit_done",
                !.maybe_sib = Some(IF maybe_arch = Some("Arch32")
                                   THEN Sib32From(bytes[1])
                                   ELSE Sib64FromByteWithRex(bytes[1], maybe_rex))])

NextSib == SibFrom

SpecSib == InitSib /\ [][NextSib]_vars

InitModRM ==
    /\ ImmIdle
    /\ \E b \in 0..255, a \in MaybeArchs, rex \in MaybeRexs :
          Is([StartAt(<<b>>, a, 0) EXCEPT !.pc = "modrm_from", !.maybe_rex = rex,
                                          !.entry = "modrm"])

\* Lines 228-231 of from_reader: the ModR/M byte read and decoded.
ModRMFrom ==
    /\ pc = "modrm_from"
    /\ Take([Cur EXCEPT
                !.pos = 1, !.pc = "unit_done",
                !.maybe_modrm = Some(ModRMFromByteWithArch(bytes[1], maybe_arch,
                                                           maybe_rex))])

NextModRM == ModRMFrom

SpecModRM == InitModRM /\ [][NextModRM]_vars

(***************************************************************************)
(* Specification SpecReg: Reg::convert_with_opsize applied to every        *)
(* general-purpose register and every OpSize, as the operand loop of       *)
(* from_reader applies it to a register with op_size_override.             *)
(***************************************************************************)
\* The general-purpose registers: the members of the sixteen families and
\* the four high-byte registers.
GprRegs ==
    UNION {{GprTable[f][k] : k \in 1..4} : f \in DOMAIN GprTable}
    \cup {"AH", "CH", "DH", "BH"}

InitReg ==
    /\ ImmIdle
    /\ \E reg \in GprRegs, op_size \in OpSizes :
          Is([StartAt(<< >>, None, 0) EXCEPT
                 !.pc = "reg_convert", !.entry = "reg",
                 !.resolved_operands[1] = Some(ResolvedReg(reg)),
                 !.op_size_override = op_size])

\* reg.convert_with_opsize(&op_size_override): the register, or a panic.
RegConvert ==
    /\ pc = "reg_convert"
    /\ LET reg == RegConvertWithOpsize(Unwrap(resolved_operands[1]).reg, op_size_override)
       IN  Take(IF reg = PANIC THEN [Cur EXCEPT !.pc = "unit_done", !.result = "panic"]
                ELSE [Cur EXCEPT !.pc = "unit_done", !.result = "ok",
                                 !.resolved_operands[2] = Some(ResolvedReg(reg))])

NextReg == RegConvert

SpecReg == InitReg /\ [][NextReg]_vars

(***************************************************************************)
(* Specification SpecReader: Reader::read::<T> and Reader::peek::<T>       *)
(* called in any order on a reader over a short buffer.  start is the      *)
(* position before the last call.                                          *)
(***************************************************************************)
MaxBufLen == 5

\* Buffers of up to MaxBufLen bytes with and without the top bit.
RECURSIVE SeqsUpTo(_, _)
SeqsUpTo(S, n) ==
    IF n = 0 THEN {<< >>}
    ELSE SeqsUpTo(S, n - 1)
         \cup {Append(q, b) : q \in {r \in SeqsUpTo(S, n - 1) : Len(r) = n - 1}, b \in S}
ReaderBuffers == SeqsUpTo({1, 128, 255}, MaxBufLen)

\* Reader::from_vec.
InitReader ==
    /\ ImmIdle
    /\ \E b \in ReaderBuffers :
          Is([StartAt(b, None, 0) EXCEPT !.pc = "reader", !.entry = "reader"])

\* The outcome of a read or a peek r of type ty, as pos, start, result, err.
ReaderCall(r) ==
    Apply([Cur EXCEPT !.start = pos, !.pos = r.pos,
                      !.result = IF r.ok THEN "ok" ELSE "err",
                      !.err = IF r.ok THEN NoError ELSE NotEnoughBytes(<< >>)])

\* reader.read::<T>().
ReaderReadT ==
    /\ pc = "reader"
    /\ \E ty \in IntTypes :
          LET r == ReaderRead(bytes, pos, ty.size)
          IN  /\ ReaderCall(r)
              /\ last_read' = [op |-> "read", ty |-> ty.name, ok |-> r.ok,
                               val |-> IF r.ok THEN FromLeBytes(r.val, ty) ELSE 0]
    /\ UNCHANGED imm_vars

\* reader.peek::<T>().
ReaderPeekT ==
    /\ pc = "reader"
    /\ \E ty \in IntTypes :
          LET r == ReaderPeek(bytes, pos, ty.size)
          IN  /\ ReaderCall(r)
              /\ last_read' = [op |-> "peek", ty |-> ty.name, ok |-> r.ok,
                               val |-> IF r.ok THEN FromLeBytes(r.val, ty) ELSE 0]
    /\ UNCHANGED imm_vars

NextReader == ReaderReadT \/ ReaderPeekT

SpecReader == InitReader /\ [][NextReader]_vars

(***************************************************************************)
(* Specification SpecImm: Immediate::convert_with_opsize applied, up to    *)
(* MaxConverts times in a row, to immediates of every variant.             *)
(***************************************************************************)
MaxConverts == 2

\* Payloads of n bytes: zero, one, minus one, the least and the greatest
\* signed value, and a mixed pattern with the sign bit set.
ImmPayloads(n) ==
    {Repeat(0, n), <<1>> \o Repeat(0, n - 1), Repeat(255, n),
     Repeat(0, n - 1) \o <<128>>, Repeat(255, n - 1) \o <<127>>, Fill(n)}

ImmSamples ==
    UNION {{[kind |-> k, val |-> v] : v \in ImmPayloads(ImmKindBytes(k))} : k \in ImmKinds}

InitImm ==
    /\ Is([StartAt(<< >>, None, 0) EXCEPT !.pc = "unit_done", !.entry = "imm"])
    /\ \E imm \in ImmSamples : imm_orig = Some(imm) /\ imm_cur = Some(imm)
    /\ imm_sizes = << >> /\ last_read = NoRead

\* imm = imm.convert_with_opsize(op_size), for any op_size.
ImmConvert ==
    /\ Len(imm_sizes) < MaxConverts
    /\ \E op_size \in OpSizes :
          /\ imm_cur' = Some(ImmConvertWithOpsize(Unwrap(imm_cur), op_size))
          /\ imm_sizes' = Append(imm_sizes, op_size)
    /\ UNCHANGED <<decoder_vars, imm_orig, last_read>>

NextImm == ImmConvert

SpecImm == InitImm /\ [][NextImm]_vars

(***************************************************************************)
(* Properties.                                                             *)
(***************************************************************************)
\* from_reader has returned an Instruction.
Returned == pc = "done" /\ result = "ok"

\* The byte length the returned Instruction implies: recorded prefixes, REX,
\* opcode bytes, ModR/M, SIB, displacement, immediate.
ImpliedLength ==
    Len(prefixs) + (IF IsSome(maybe_rex) THEN 1 ELSE 0) + opcode_bytes
    + (IF IsSome(maybe_modrm) THEN 1 ELSE 0) + (IF IsSome(maybe_sib) THEN 1 ELSE 0)
    + (IF IsSome(maybe_disp) THEN Len(Unwrap(maybe_disp).val) ELSE 0) + imm_bytes

\* C1: after every successful from_reader call the reader has advanced by
\* exactly the byte length the returned Instruction implies, for any number
\* of leading prefix bytes.
C1_ConsumedIsImpliedLength == Returned => pos - start = ImpliedLength

\* C2: from_reader ends with an Instruction or an InstructionError; no input
\* reaches a panic!, unreachable! or todo!.
C2_NeverPanics == result # "panic"

\* An error that wraps ReaderError::NotEnoughBytes.
WrapsNotEnoughBytes(e) ==
    /\ Len(e.path) >= 2
    /\ e.path[Len(e.path) - 1] = "ReaderError"
    /\ e.path[Len(e.path)] = "NotEnoughBytes"

\* Decoding the first k bytes of what the current call consumed.
Truncated(k) == FromReader(SubSeq(bytes, 1, start + k), maybe_arch, start)

\* C3: when a buffer decodes successfully consuming n bytes, decoding its
\* first k < n bytes returns an error that wraps NotEnoughBytes, never an
\* Instruction; and a 1-byte buffer holding 0x80..0x83 or 0xFF fails with
\* NotEnoughBytes at the peek of the extension byte, the opcode still
\* awaiting its extension.
C3_TruncationFails ==
    /\ Returned =>
          \A k \in 0..(pos - start - 1) :
              Truncated(k).result = "err" /\ WrapsNotEnoughBytes(Truncated(k).err)
    /\ (pc = "done" /\ Len(bytes) = 1 /\ bytes[1] \in {128, 129, 130, 131, 255}) =>
          /\ result = "err"
          /\ err = NotEnoughBytes(<< >>)
          /\ opcode.ident.t = "NeedsModRMExtension"
          /\ IsNone(maybe_modrm)
          /\ pos = 1

\* C3 witness: a returned instruction with ModR/M, SIB, displacement and
\* immediate, so that the truncations end in every reading stage.
C3_Witness ==
    /\ Returned /\ IsSome(maybe_modrm) /\ IsSome(maybe_sib) /\ IsSome(maybe_disp)
    /\ imm_bytes > 0 /\ Len(prefixs) > 0 /\ IsSome(maybe_rex)

\* The operand templates of the opcode whose size is overridable.
OverridableOperands ==
    {i \in 1..4 : /\ IsSome(opcode.operands[i])
                  /\ Unwrap(opcode.operands[i]).tag \in {"ModRM", "ModReg", "Immediate"}
                  /\ Unwrap(opcode.operands[i]).size \in OverridableOpSize}

\* C4: in a returned instruction with an operand of overridable size and a
\* REX with W = 1, the operand size recorded is 64-bit and every register
\* resolved for such an operand is a 64-bit register, with or without the
\* 0x66 prefix.
C4_RexWForces64 ==
    (Returned /\ IsSome(maybe_rex) /\ Unwrap(maybe_rex).w = 1
       /\ OverridableOperands # {}) =>
        /\ op_size_override = "U64"
        /\ \A i \in OverridableOperands :
              LET r == Unwrap(resolved_operands[i])
              IN  /\ r.tag = "Reg" => RegSize(r.reg) = "U64"
                  /\ r.tag = "Immediate" =>
                        Unwrap(r.imm).kind \in {"ImmI32", "ImmU64"}

\* C4 witness: such an instruction decoded after a 0x66 prefix, with a
\* register operand.
C4_Witness ==
    /\ Returned /\ IsSome(maybe_rex) /\ Unwrap(maybe_rex).w = 1
    /\ "OpSize" \in {prefixs[i] : i \in DOMAIN prefixs}
    /\ \E i \in OverridableOperands : Unwrap(resolved_operands[i]).tag = "Reg"

\* The width in bits of an operand size and of an immediate.
OpSizeBits(op_size) ==
    CASE op_size \in {"U8", "I8"} -> 8 [] op_size \in {"U16", "I16"} -> 16
      [] op_size \in {"U32", "I32"} -> 32 [] op_size \in {"U64", "I64"} -> 64
ImmBits(imm) == 8 * Len(imm.val)

\* C5: converting an immediate to its own width leaves it unchanged, and
\* converting to a width w2 and then to a width w3 >= w2 (both at least the
\* immediate's width) gives what converting to w3 at once gives.
C5_WidenLaws ==
    /\ (Len(imm_sizes) = 1 /\ imm_sizes[1] # "CpuMode"
          /\ OpSizeBits(imm_sizes[1]) = ImmBits(Unwrap(imm_orig))) =>
            imm_cur = imm_orig
    /\ (Len(imm_sizes) = 2 /\ imm_sizes[1] # "CpuMode" /\ imm_sizes[2] # "CpuMode"
          /\ ImmBits(Unwrap(imm_orig)) <= OpSizeBits(imm_sizes[1])
          /\ OpSizeBits(imm_sizes[1]) <= OpSizeBits(imm_sizes[2])) =>
            imm_cur = Some(ImmConvertWithOpsize(Unwrap(imm_orig), imm_sizes[2]))

\* A SIB byte has been decoded and its index field is 0b100.
SibIndex100 == pc = "unit_done" /\ entry = "sib" /\ Bits(bytes[1], 3, 3) = 4

ModRMDisp32Form ==
    /\ pc = "unit_done" /\ entry = "modrm"
    /\ ModBits(bytes[1]) = 0 /\ RmBits(bytes[1]) = 5

\* C7: such a byte, in 32-bit addressing and in 64-bit addressing with
\* REX.B = 0 or no REX, decodes to EffAddrType::None with a 32-bit
\* displacement: no base register, no SIB form.
C7_Mod00Rm101IsDisp32 ==
    LET a == Unwrap(maybe_modrm).addressing
    IN  (ModRMDisp32Form
           /\ \/ a.form = "EffAddr32Bit"
              \/ a.form = "EffAddr64Bit"
                   /\ (IsNone(maybe_rex) \/ Unwrap(maybe_rex).b = 0)) =>
            /\ a.eff_addr = EffAddrNone
            /\ a.maybe_disp = Some("Bit32")
            /\ IsNone(RmReg(a))
            /\ ~HasSib(a)

\* C7 witness: 64-bit addressing under a REX with B = 0, reg field 111.
C7_Witness ==
    /\ ModRMDisp32Form /\ maybe_arch = Some("Arch64") /\ RegBits(bytes[1]) = 7
    /\ IsSome(maybe_rex) /\ Unwrap(maybe_rex).b = 0 /\ Unwrap(maybe_rex).r = 1
    /\ Unwrap(maybe_modrm).reg = "R15"

\* A call on a 2-byte buffer [op, m] in 64-bit mode, op an MR opcode with
\* CPU-mode-sized operands and m with mod = 11, has ended.
MRRegisterForm ==
    /\ pc = "done" /\ maybe_arch = Some("Arch64") /\ start = 0 /\ Len(bytes) = 2
    /\ bytes[1] \in {1, 17, 33, 49} /\ ModBits(bytes[2]) = 3

\* C8: it returned an Instruction, consumed 2 bytes, with encoding MR,
\* operand size 32-bit, operand 0 the 32-bit register of m's r/m field and
\* operand 1 the 32-bit register of m's reg field; [0x31, 0xC0] is
\* Xor EAX, EAX.
C8_MRRegisterForm ==
    MRRegisterForm =>
        /\ result = "ok" /\ pos = 2
        /\ prefixs = << >> /\ IsNone(maybe_rex)
        /\ opcode.encoding = Some("MR")
        /\ op_size_override = "U32"
        /\ resolved_operands =
              <<Some(ResolvedReg(Rm32Regs[RmBits(bytes[2]) + 1])),
                Some(ResolvedReg(Rm32Regs[RegBits(bytes[2]) + 1])), None, None>>
        /\ bytes = <<49, 192>> =>
              /\ opcode.ident.t = "Xor"
              /\ resolved_operands[1] = Some(ResolvedReg("EAX"))
              /\ resolved_operands[2] = Some(ResolvedReg("EAX"))

\* C8 witness: [0x21, 0xD3], And with r/m = EBX and reg = EDX.
C8_Witness ==
    /\ MRRegisterForm /\ result = "ok" /\ bytes = <<33, 211>>
    /\ opcode.ident.t = "And"
    /\ resolved_operands[1] = Some(ResolvedReg("EBX"))

\* C9: [0x48, 0x89, 0xE2] in 64-bit mode records a REX with W = 1, has
\* operand size 64-bit, consumes the ModR/M byte (mod = 11) and resolves
\* RDX from r/m and RSP from reg, consuming all 3 bytes.
C9_MovRexW ==
    (pc = "done" /\ bytes = <<72, 137, 226>> /\ maybe_arch = Some("Arch64")) =>
        /\ result = "ok" /\ pos = 3
        /\ IsSome(maybe_rex) /\ Unwrap(maybe_rex).w = 1
        /\ op_size_override = "U64"
        /\ IsSome(maybe_modrm) /\ Unwrap(maybe_modrm).addressing.mod_addr = 3
        /\ resolved_operands[1] = Some(ResolvedReg("RDX"))
        /\ resolved_operands[2] = Some(ResolvedReg("RSP"))

\* A call whose bytes are 0xF3 0x0F 0x1E t has ended.
RepEscape1E ==
    /\ pc = "done" /\ Len(bytes) >= start + 4
    /\ SubSeq(bytes, start + 1, start + 3) = <<REP, ESCAPE_CODE, 30>>

\* C10: after the single prefix Rep, 0x0F 0x1E 0xFA is EndBr64 and
\* 0x0F 0x1E 0xFB is EndBr32, with no operands, encoding ZO, no ModR/M and
\* 4 bytes consumed; any other third byte t fails with
\* OpcodeError::Invalid3ByteOpcode(0x0F, 0x1E, t).
C10_EndBr ==
    LET t == bytes[start + 4]
    IN  RepEscape1E =>
          IF t \in {250, 251}
          THEN /\ result = "ok" /\ pos = start + 4
               /\ opcode.ident.t = (IF t = 250 THEN "EndBr64" ELSE "EndBr32")
               /\ prefixs = <<"Rep">>
               /\ opcode.operands = NoOperands
               /\ resolved_operands = <<None, None, None, None>>
               /\ opcode.encoding = Some("ZO")
               /\ IsNone(maybe_modrm)
          ELSE /\ result = "err"
               /\ err = Error(<<"OpcodeError", "Invalid3ByteOpcode">>, <<15, 30, t>>, "")

\* C10 witness: EndBr64 returned after 0xF3 0x0F 0x1E 0xFA.
C10_Witness ==
    /\ RepEscape1E /\ bytes[start + 4] = 250 /\ result = "ok"
    /\ opcode.ident.t = "EndBr64" /\ pos = start + 4


\* The opcode byte that from_reader settled on was read alone and is one of
\* 0x80..0x83, 0xFF; the extension stage is over and the ModR/M byte, the
\* next byte of the buffer, has not been consumed.
ExtensionDone ==
    /\ pc = "modrm" /\ opcode_bytes = 1 /\ pos >= 1
    /\ bytes[pos] \in {128, 129, 130, 131, 255}

Group1Names == <<"Add", "Or", "Adc", "Sbb", "And", "Sub", "Xor", "Cmp">>
Group5Names == <<"Inc", "Dec", "CallNear", "CallFar", "JmpNear", "JmpFar", "Push">>

\* A returned instruction whose templates are those of 0x83: an r/m operand
\* of CPU-mode size and an 8-bit immediate, encoding MI.
Returned83 ==
    /\ Returned /\ opcode.encoding = Some("MI")
    /\ IsSome(opcode.operands[1]) /\ Unwrap(opcode.operands[1]).tag = "ModRM"
    /\ Unwrap(opcode.operands[1]).size = "CpuMode"
    /\ opcode.operands[2] = Some(OperandImmediate("U8"))

\* C11: after the extension stage an opcode byte 0x80..0x83 followed by a
\* ModR/M byte with reg field e has the e-th identity of (Add, Or, Adc, Sbb,
\* And, Sub, Xor, Cmp) and encoding MI; 0xFF with e in 0..6 has the e-th of
\* (Inc, Dec, CallNear, CallFar, JmpNear, JmpFar, Push).  For 0x83 the
\* templates are an r/m operand of CPU-mode size and an 8-bit immediate, and
\* the returned instruction has a register or memory operand 0, a register
\* of the operand size in force, and an immediate operand 1 read from 1 byte.
C11_ExtensionTable ==
    /\ ExtensionDone =>
          LET b == bytes[pos]
              e == RegBits(bytes[pos + 1])
          IN  /\ b \in {128, 129, 130, 131} =>
                    /\ opcode.ident = Ident(Group1Names[e + 1])
                    /\ opcode.encoding = Some("MI")
              /\ (b = 255 /\ e <= 6) => opcode.ident = Ident(Group5Names[e + 1])
              /\ b = 131 =>
                    /\ opcode.operands[1] =
                          Some(OperandModRM("CpuMode", AddrSizeFromArch(CpuMode(Cur))))
                    /\ opcode.operands[2] = Some(OperandImmediate("U8"))
    /\ Returned83 =>
          LET r0 == Unwrap(resolved_operands[1])
              r1 == Unwrap(resolved_operands[2])
          IN  /\ r0.tag \in {"Reg", "Mem"}
              /\ r0.tag = "Reg" => RegSize(r0.reg) = op_size_override
              /\ r1.tag = "Immediate" /\ imm_bytes = 1

\* C11 witness: 0x83 with reg field 6 returned as Xor with a register
\* operand and an immediate read from 1 byte.
C11_Witness ==
    /\ Returned83 /\ opcode.ident = Ident("Xor") /\ opcode_bytes = 1
    /\ Unwrap(resolved_operands[1]).tag = "Reg" /\ imm_bytes = 1
    /\ bytes[start + 1] = 131 /\ RegBits(bytes[start + 2]) = 6


\* The bytes that are a legacy prefix, a REX byte, the escape code, or an
\* entry of the one-byte opcode map, and the bytes that are none of these.
ClassifiedBytes ==
    {240, 242, 243, 46, 54, 62, 38, 100, 101, 102, 103} \cup (64..79) \cup {15}
    \cup (0..6) \cup {14} \cup (16..22) \cup {30} \cup (32..37) \cup {48, 49, 52, 53}
    \cup (80..87) \cup {104, 106, 128, 129, 130, 131, 141, 255}
UnmappedBytes == (0..255) \ ClassifiedBytes

\* Opcode resolution is over; the opcode byte it settled on was read alone
\* and is an unmapped byte.
UnmappedResolved ==
    /\ pc = "extension" /\ opcode_bytes = 1 /\ pos >= 1
    /\ bytes[pos] \in UnmappedBytes

\* C12: such a byte resolves to identity Unknown with no operand templates
\* and no encoding, and from_reader then returns an Instruction with no
\* ModR/M, SIB, displacement or operands, the reader staying right after
\* that byte.
C12_UnmappedIsUnknown ==
    UnmappedResolved =>
        /\ opcode = MkOpcode(Ident("Unknown"), NoOperands, None)
        /\ LET f == Run(Cur)
           IN  /\ f.result = "ok" /\ f.pos = pos
               /\ f.opcode = opcode
               /\ IsNone(f.maybe_modrm) /\ IsNone(f.maybe_sib) /\ IsNone(f.maybe_disp)
               /\ f.resolved_operands = <<None, None, None, None>>
               /\ f.imm_bytes = 0

\* C12 witness: 0x90 resolved after two prefixes and a REX byte.
C12_Witness ==
    /\ UnmappedResolved /\ bytes[pos] = 144 /\ Len(prefixs) = 2 /\ IsSome(maybe_rex)
    /\ pos = start + 4


\* The registers only a REX bit can select.
ExtendedRegs ==
    UNION {{GprTable[f][k] : k \in 1..4} :
              f \in {"R8Reg", "R9Reg", "R10Reg", "R11Reg", "R12Reg", "R13Reg", "R14Reg",
                     "R15Reg"}}

\* C13: an Instruction returned in 16-bit or 32-bit CPU mode has no REX
\* recorded, its opcode is not Rex(r), and none of its register operands is
\* a register selected by a REX bit.
C13_NoRexOutside64 ==
    (Returned /\ maybe_arch \in {Some("Arch16"), Some("Arch32")}) =>
        /\ IsNone(maybe_rex)
        /\ opcode.ident.t # "Rex"
        /\ \A i \in 1..4 :
              (IsSome(resolved_operands[i]) /\ Unwrap(resolved_operands[i]).tag = "Reg")
                  => Unwrap(resolved_operands[i]).reg \notin ExtendedRegs


\* The family a general-purpose register is a member of, and the place of
\* a width in a family: 8, 16, 32, 64 bits, and 32 bits for any other size.
FamilyOf(reg) == CHOOSE f \in DOMAIN GprTable : \E k \in 1..4 : GprTable[f][k] = reg
WidthIndex(op_size) ==
    CASE op_size = "U8" -> 1 [] op_size = "U16" -> 2 [] op_size = "U32" -> 3
      [] op_size = "U64" -> 4 [] OTHER -> 3

\* C14: converting a member of one of the sixteen register families to a
\* size gives the member of the same family of that width (the 32-bit
\* member for I8, I16, I32, I64, CpuMode), and never panics.
C14_ConvertWithinFamily ==
    (pc = "unit_done" /\ entry = "reg"
       /\ Unwrap(resolved_operands[1]).reg \notin {"AH", "CH", "DH", "BH"}) =>
        /\ result = "ok"
        /\ resolved_operands[2] =
              Some(ResolvedReg(GprTable[FamilyOf(Unwrap(resolved_operands[1]).reg)]
                                       [WidthIndex(op_size_override)]))


\* The value of the little-endian integer of type ty that starts at buffer
\* offset p, written out byte by byte.
ExpectedLe(p, ty) ==
    LET b(i) == bytes[p + i]
        neg(top) == IF ty.signed /\ top >= 128 THEN 256 ELSE 0
    IN  CASE ty.size = 1 -> b(1) - neg(b(1))
          [] ty.size = 2 -> b(1) + 256 * (b(2) - neg(b(2)))
          [] ty.size = 4 -> b(1) + 256 * b(2) + 65536 * b(3)
                            + 16777216 * (b(4) - neg(b(4)))

\* C15: after a read or a peek of an n-byte type at position p (start): with
\* at least n bytes unread the call returns the little-endian value of
\* bytes [p, p + n), a read leaves pos = p + n and a peek pos = p; with
\* fewer it returns NotEnoughBytes and pos = p.  Always 0 <= pos <= length
\* and pos is not below p.
C15_ReaderContract ==
    (entry = "reader" /\ last_read.op # "none") =>
        LET ty == CHOOSE t \in IntTypes : t.name = last_read.ty
        IN  /\ 0 <= pos /\ pos <= Len(bytes) /\ start <= pos
            /\ (Len(bytes) - start >= ty.size) =>
                  /\ last_read.ok /\ result = "ok"
                  /\ last_read.val = ExpectedLe(start, ty)
                  /\ pos = (IF last_read.op = "read" THEN start + ty.size ELSE start)
            /\ (Len(bytes) - start < ty.size) =>
                  /\ ~last_read.ok /\ result = "err" /\ err = NotEnoughBytes(<< >>)
                  /\ pos = start

\* C15 witness: a read of an i16 at position 1 over the bytes 0x80 0xFF,
\* which returns -128 and leaves the position at 3.
C15_Witness ==
    /\ entry = "reader" /\ last_read = [op |-> "read", ty |-> "i16", ok |-> TRUE, val |-> -128]
    /\ start = 1 /\ pos = 3 /\ Len(bytes) = 5


\* C16: Disassembler::parse comes to its end on every buffer.  On the way, a
\* call of from_reader that returns an Instruction has advanced the reader
\* by at least one byte; at most 20 instructions are counted; a call is only
\* started with fewer than 20 instructions counted and a byte unread, and an
\* Ok(()) of parse means 20 instructions or nothing unread; with nothing
\* unread the loop test ends parse at once; and a decode error ends parse
\* with that error, the reader where the failed call left it.
C16_ParseTerminates ==
    /\ []((pc = "done" /\ result = "ok") => pos >= start + 1)
    /\ [](parser_insts <= MAX_INSTS)
    /\ [](pc = "first_opcode" =>
             (parser_insts < MAX_INSTS /\ BytesUnread(bytes, pos) > 0))
    /\ []((pc = "parse_done" /\ parse_result = "ok") =>
             (parser_insts = MAX_INSTS \/ BytesUnread(bytes, pos) = 0))
    /\ [][(pc = "parse_loop" /\ BytesUnread(bytes, pos) = 0) =>
             (pc' = "parse_done" /\ parse_result' = "ok")]_vars
    /\ [][(pc = "done" /\ result = "err") =>
             (pc' = "parse_done" /\ parse_result' = "err" /\ pos' = pos
                /\ parser_insts' = parser_insts)]_vars
    /\ <>(pc = "parse_done")

\* C16 witness: parse has returned Ok(()) at the cap of 20 instructions with
\* a byte still unread.
C16_Witness ==
    /\ pc = "parse_done" /\ parse_result = "ok" /\ parser_insts = MAX_INSTS
    /\ BytesUnread(bytes, pos) > 0


C18_ExtensionResolved ==
    /\ Returned => opcode.ident.t # "NeedsModRMExtension"
    /\ ExtensionDone =>
          /\ opcode.ident.t \notin {"NeedsModRMExtension", "Unknown", "Prefix", "Rex"}
          /\ IsSome(opcode.operands[1]) /\ IsSome(opcode.encoding)
          /\ IsNone(maybe_modrm) /\ Len(bytes) > pos

\* C18 witness: 0xFF with reg field 6 returned as Push with its operand.
C18_Witness ==
    /\ Returned /\ opcode_bytes = 1 /\ bytes[start + 1] = 255
    /\ opcode.ident = Ident("Push") /\ IsSome(maybe_modrm)
    /\ IsSome(resolved_operands[1])


\* A ModR/M byte with mod = 00 has been decoded; the r/m field extended
\* with REX.B, as the 64-bit table sees it.
Mod00Decoded == pc = "unit_done" /\ entry = "modrm" /\ ModBits(bytes[1]) = 0
ExtendedRm ==
    RmBits(bytes[1]) + (IF IsSome(maybe_rex) THEN 8 * Unwrap(maybe_rex).b ELSE 0)

\* The 32-bit table at mod = 00: r/m 100 is the SIB form without a
\* displacement, 101 no base and a 32-bit displacement, any other r/m its
\* base register without a displacement.
Mod00Table32(a) ==
    CASE RmBits(bytes[1]) = 4 -> a.eff_addr = EffAddrSib /\ IsNone(a.maybe_disp)
      [] RmBits(bytes[1]) = 5 -> a.eff_addr = EffAddrNone /\ a.maybe_disp = Some("Bit32")
      [] OTHER -> /\ a.eff_addr = EffAddrReg(Rm32Regs[RmBits(bytes[1]) + 1])
                  /\ IsNone(a.maybe_disp)

\* C19 as stated: in the 64-bit table at mod = 00 the extended r/m 0100 and
\* 1100 are the SIB form without a displacement, 0101 is no base with a
\* 32-bit displacement, and every other value, 1101 included, is its base
\* register without a displacement; the 32-bit table likewise.
C19_Mod00TableAsStated ==
    LET a == Unwrap(maybe_modrm).addressing
    IN  /\ (Mod00Decoded /\ a.form = "EffAddr64Bit") =>
              CASE ExtendedRm \in {4, 12} -> a.eff_addr = EffAddrSib /\ IsNone(a.maybe_disp)
                [] ExtendedRm = 5 -> a.eff_addr = EffAddrNone /\ a.maybe_disp = Some("Bit32")
                [] OTHER -> /\ a.eff_addr = EffAddrReg(Rm64Regs[ExtendedRm + 1])
                            /\ IsNone(a.maybe_disp)
        /\ (Mod00Decoded /\ a.form = "EffAddr32Bit") => Mod00Table32(a)

\* C19 amended: the same, except that the extended r/m 1101 is the base
\* register R13 with a 32-bit displacement.
C19_Mod00TableR13Disp32 ==
    LET a == Unwrap(maybe_modrm).addressing
    IN  /\ (Mod00Decoded /\ a.form = "EffAddr64Bit") =>
              CASE ExtendedRm \in {4, 12} -> a.eff_addr = EffAddrSib /\ IsNone(a.maybe_disp)
                [] ExtendedRm = 5 -> a.eff_addr = EffAddrNone /\ a.maybe_disp = Some("Bit32")
                [] ExtendedRm = 13 -> /\ a.eff_addr = EffAddrReg("R13")
                                      /\ a.maybe_disp = Some("Bit32")
                [] OTHER -> /\ a.eff_addr = EffAddrReg(Rm64Regs[ExtendedRm + 1])
                            /\ IsNone(a.maybe_disp)
        /\ (Mod00Decoded /\ a.form = "EffAddr32Bit") => Mod00Table32(a)

\* C19 witness: the 64-bit table decoded mod = 00 with extended r/m 1101.
C19_Witness ==
    /\ Mod00Decoded /\ maybe_arch = Some("Arch64") /\ ExtendedRm = 13
    /\ Unwrap(maybe_modrm).addressing.eff_addr = EffAddrReg("R13")


\* The operands of the opcode at hand with a ModRM template that have been
\* resolved.
ResolvedModRMOperands ==
    {i \in 1..4 : /\ IsSome(opcode.operands[i])
                  /\ Unwrap(opcode.operands[i]).tag = "ModRM"
                  /\ IsSome(resolved_operands[i])}

\* The buffer offset of the ModR/M byte of a call in which no prefix byte
\* was dropped.
ModRMIndex ==
    start + Len(prefixs) + (IF IsSome(maybe_rex) THEN 1 ELSE 0) + opcode_bytes + 1

\* C20: in 32- and 64-bit mode a decoded ModR/M byte records its mod bits;
\* with mod = 11 its addressing is a register, without displacement and
\* without SIB, and a ModRM operand resolved from it is
\* ResolvedOperand::Reg; with any other mod a ModRM operand resolved from
\* it is ResolvedOperand::Mem.
C20_Mod11RegElseMem ==
    (pc \in {"operands_init", "operand", "done"} /\ IsSome(maybe_modrm)
       /\ maybe_arch # Some("Arch16")) =>
        LET a == Unwrap(maybe_modrm).addressing
        IN  /\ Len(prefixs) < 3 => a.mod_addr = ModBits(bytes[ModRMIndex])
            /\ a.mod_addr = 3 =>
                  /\ a.eff_addr.t = "Reg" /\ IsNone(a.maybe_disp) /\ ~HasSib(a)
                  /\ IsNone(maybe_sib) /\ IsNone(maybe_disp)
                  /\ \A i \in ResolvedModRMOperands :
                        Unwrap(resolved_operands[i]).tag = "Reg"
            /\ a.mod_addr # 3 =>
                  \A i \in ResolvedModRMOperands :
                      Unwrap(resolved_operands[i]).tag = "Mem"

\* C20 witness: in 64-bit mode under a REX with B = 1, a returned
\* instruction whose ModRM operand, from mod = 11, is an extended register.
C20_Witness ==
    /\ Returned /\ maybe_arch = Some("Arch64")
    /\ IsSome(maybe_rex) /\ Unwrap(maybe_rex).b = 1
    /\ IsSome(maybe_modrm) /\ Unwrap(maybe_modrm).addressing.mod_addr = 3
    /\ 1 \in ResolvedModRMOperands
    /\ Unwrap(resolved_operands[1]).tag = "Reg"
    /\ Unwrap(resolved_operands[1]).reg \in ExtendedRegs


\* The prefix byte from_reader read and did not record: the fourth leading
\* byte, when three prefixes are recorded and it is a prefix too.
DroppedPrefix ==
    IF Len(prefixs) = 3 /\ Len(bytes) >= start + 4
       /\ IsSome(PrefixFromByte(bytes[start + 4]))
    THEN 1 ELSE 0

\* The buffer offset (1-based index of the byte before it) at which the
\* opcode bytes of the call end.
OpcodeEnd ==
    start + Len(prefixs) + DroppedPrefix + (IF IsSome(maybe_rex) THEN 1 ELSE 0)
    + opcode_bytes

\* The ModR/M stage is over and a SIB byte was consumed after a ModR/M byte
\* with mod = 00, in 32- or 64-bit mode.
SibAfterMod00 ==
    /\ pc \in {"operands_init", "operand", "done"}
    /\ maybe_arch \in {Some("Arch32"), Some("Arch64")}
    /\ IsSome(maybe_modrm) /\ IsSome(maybe_sib)
    /\ Unwrap(maybe_modrm).addressing.mod_addr = 0

\* The SIB byte's base field names EBP (32-bit) or RBP (64-bit, REX.B clear).
SibBaseIsBP ==
    /\ Bits(bytes[OpcodeEnd + 2], 0, 3) = 5
    /\ (maybe_arch = Some("Arch32") \/ IsNone(maybe_rex) \/ Unwrap(maybe_rex).b = 0)

\* C21: after mod = 00 and a SIB byte whose base is EBP / RBP the recorded
\* Sib has no base and the four bytes right after the SIB byte are read as a
\* 32-bit displacement; with any other base the base is kept and no
\* displacement is read.
C21_SibNoBaseDisp32 ==
    SibAfterMod00 =>
        IF SibBaseIsBP
        THEN /\ IsNone(Unwrap(maybe_sib).base)
             /\ Unwrap(maybe_modrm).addressing.maybe_disp = Some("Bit32")
             /\ (result # "err" =>
                    maybe_disp = Some([kind |-> "Disp32",
                                       val |-> SubSeq(bytes, OpcodeEnd + 3, OpcodeEnd + 6)]))
        ELSE /\ IsSome(Unwrap(maybe_sib).base)
             /\ Unwrap(Unwrap(maybe_sib).base) \notin {"EBP", "RBP", "BP"}
             /\ IsNone(Unwrap(maybe_modrm).addressing.maybe_disp)
             /\ IsNone(maybe_disp)

\* C21 witness: a 64-bit instruction returned with a SIB without base and
\* its 32-bit displacement, under a REX with B = 0.
C21_Witness ==
    /\ SibAfterMod00 /\ SibBaseIsBP /\ Returned /\ maybe_arch = Some("Arch64")
    /\ IsSome(maybe_rex) /\ IsNone(Unwrap(maybe_sib).base)
    /\ IsSome(maybe_disp) /\ Len(Unwrap(maybe_disp).val) = 4


\* The number of legacy prefix bytes the buffer starts with at the call's
\* position, counted up to n.
RECURSIVE LeadingPrefixes(_, _, _)
LeadingPrefixes(b, at, n) ==
    IF n = 0 \/ at > Len(b) \/ IsNone(PrefixFromByte(b[at])) THEN 0
    ELSE 1 + LeadingPrefixes(b, at + 1, n - 1)

\* C22: a returned Instruction carries at most 3 prefixes, and they are the
\* leading prefix bytes of the input, in input order: all of them when the
\* input starts with fewer than 3, the first 3 otherwise.
C22_AtMostThreeLeadingPrefixes ==
    Returned =>
        /\ Len(prefixs) <= 3
        /\ Len(prefixs) = LeadingPrefixes(bytes, start + 1, 3)
        /\ \A i \in 1..Len(prefixs) : Some(prefixs[i]) = PrefixFromByte(bytes[start + i])

\* C22 witness: an Instruction returned with 3 prefixes from a buffer that
\* starts with 5 legacy prefix bytes.
C22_Witness ==
    /\ Returned /\ Len(prefixs) = 3
    /\ LeadingPrefixes(bytes, start + 1, 5) = 5


\* The opcode at hand has an operand template resolved from the ModR/M byte.
HasModRMTemplate ==
    \E i \in 1..4 : /\ IsSome(opcode.operands[i])
                    /\ Unwrap(opcode.operands[i]).tag \in {"ModRM", "ModReg"}

\* C23: from_reader never ends with InstructionError::InvalidModRMError: an
\* opcode past the extension stage with a ModRM or ModReg template has
\* encoding M, MI, MR or RM, its ModR/M byte is decoded before the operands
\* are resolved, and a decoded ModR/M with mod = 11 provides a register.
C23_NoInvalidModRMError ==
    /\ err.path # <<"InvalidModRMError">>
    /\ (pc \in {"modrm", "operands_init", "operand"} /\ HasModRMTemplate) =>
            /\ IsSome(opcode.encoding)
            /\ Unwrap(opcode.encoding) \in {"M", "MI", "MR", "RM"}
    /\ (pc \in {"operands_init", "operand"} /\ HasModRMTemplate) => IsSome(maybe_modrm)
    /\ (IsSome(maybe_modrm) /\ Unwrap(maybe_modrm).addressing.mod_addr = 3) =>
            IsSome(RmReg(Unwrap(maybe_modrm).addressing))

\* C23 witness: an Instruction returned in 16-bit mode from an extension
\* entry whose ModRM operand was resolved from a mod = 11 byte.
C23_Witness ==
    /\ Returned /\ maybe_arch = Some("Arch16") /\ opcode.encoding = Some("MI")
    /\ HasModRMTemplate /\ IsSome(maybe_modrm)
    /\ Unwrap(maybe_modrm).addressing.mod_addr = 3
    /\ IsSome(resolved_operands[1]) /\ Unwrap(resolved_operands[1]).tag = "Reg"


\* The index of the first byte of the last opcode resolution of the call.
OpcodeIndex ==
    start + Len(prefixs) + DroppedPrefix + (IF IsSome(maybe_rex) THEN 1 ELSE 0) + 1

\* The call is over, its last opcode resolution read the escape byte 0x0F,
\* and a byte follows it.
EscapeResolved ==
    /\ pc = "done"
    /\ Len(bytes) > OpcodeIndex
    /\ bytes[OpcodeIndex] = ESCAPE_CODE

\* The call failed with OpcodeError::InvalidOpcode carrying the byte after
\* the escape byte.
InvalidOpcodeOfSecondByte ==
    /\ result = "err"
    /\ err.path = <<"OpcodeError", "InvalidOpcode">>
    /\ err.data = <<bytes[OpcodeIndex + 1]>>

\* C24 as stated: for every set of accumulated prefixes, an escape byte
\* followed by a byte that is no known secondary opcode (0xA0, 0xA8, 0x1E)
\* fails with InvalidOpcode carrying that byte.
C24_EscapeInvalidOpcodeAnyPrefix ==
    (EscapeResolved /\ bytes[OpcodeIndex + 1] \notin {160, 168, 30}) =>
        InvalidOpcodeOfSecondByte

\* C24, amended: an escape byte followed by a byte that is no known
\* secondary opcode fails with InvalidOpcode carrying that byte when no
\* prefix is accumulated (every byte but 0xA0 and 0xA8), and then no opcode,
\* Unknown included, is resolved.  With prefixes accumulated the first of
\* them decides: RepNE and OperandSizeOverride resolve to Unknown, Rep does
\* so when the second byte is not 0x1E, any other prefix fails with
\* InvalidPrefix carrying it.
C24_EscapeInvalidOpcodeNoPrefix ==
    EscapeResolved =>
        LET second_byte == bytes[OpcodeIndex + 1]
        IN  IF prefixs = << >>
            THEN second_byte \notin {160, 168} => InvalidOpcodeOfSecondByte
            ELSE IF prefixs[1] \in {"RepNE", "OpSize"}
                    \/ (prefixs[1] = "Rep" /\ second_byte # 30)
            THEN result = "ok" /\ opcode.ident.t = "Unknown"
            ELSE prefixs[1] # "Rep" =>
                    /\ result = "err"
                    /\ err.path = <<"OpcodeError", "InvalidPrefix">>
                    /\ err.prefix = prefixs[1]

\* C24 witness: a REX byte, the escape byte and an unrecognised second byte
\* end in InvalidOpcode.
C24_Witness ==
    /\ EscapeResolved /\ prefixs = << >> /\ IsSome(maybe_rex)
    /\ bytes[OpcodeIndex + 1] \notin {160, 168}
    /\ InvalidOpcodeOfSecondByte


\* The index of the operand that is an Immediate template at index i > 0,
\* resolved after a register or memory operand (as a set, empty if none).
WidenedImmediates ==
    {i \in 2..4 : /\ IsSome(opcode.operands[i])
                  /\ Unwrap(opcode.operands[i]).tag = "Immediate"
                  /\ IsSome(resolved_operands[i]) /\ IsSome(resolved_operands[i - 1])
                  /\ Unwrap(resolved_operands[i - 1]).tag \in {"Reg", "Mem"}}

\* The operand size at which operand i was resolved: the width of a
\* register, and for a memory operand the size its template pins or, when
\* the template is overridable, the operand size in force.
EffectiveOperandSize(i) ==
    LET r == Unwrap(resolved_operands[i])
        t == Unwrap(opcode.operands[i])
    IN  IF r.tag = "Reg" THEN RegSize(r.reg)
        ELSE IF t.size \in OverridableOpSize THEN op_size_override
        ELSE t.size

\* The bytes the cursor read for the immediate of the call.
ParsedImmediate == SubSeq(bytes, pos - imm_bytes + 1, pos)

\* C25: an immediate resolved after an operand of size S wider than the
\* parsed immediate has width S and is the sign extension of the parsed
\* bytes; when S is not wider the immediate is the parsed one.  S is the
\* effective operand size, for a register and for a memory operand.
C25_ImmediateWidenedToOperandSize ==
    Returned =>
        \A i \in WidenedImmediates :
            LET imm == Unwrap(Unwrap(resolved_operands[i]).imm)
                S == OpSizeBits(EffectiveOperandSize(i - 1))
            IN  IF S > 8 * imm_bytes
                THEN ImmBits(imm) = S /\ imm.val = SignExtend(ParsedImmediate, S \div 8)
                ELSE imm.val = ParsedImmediate

\* The same statement for the immediates that follow a register operand.
ImmediateAfterRegisterWidened ==
    Returned =>
        \A i \in WidenedImmediates :
            Unwrap(resolved_operands[i - 1]).tag = "Reg" =>
                LET imm == Unwrap(Unwrap(resolved_operands[i]).imm)
                    S == OpSizeBits(EffectiveOperandSize(i - 1))
                IN  IF S > 8 * imm_bytes
                    THEN ImmBits(imm) = S /\ imm.val = SignExtend(ParsedImmediate, S \div 8)
                    ELSE imm.val = ParsedImmediate


\* No REX byte with W = 1 is recorded.
NoRexW == IsNone(maybe_rex) \/ Unwrap(maybe_rex).w = 0

\* The 0x66 prefix is among the recorded prefixes.
HasOpSizePrefix == "OpSize" \in {prefixs[i] : i \in DOMAIN prefixs}

\* The operand templates that pin an 8-bit size.
ByteOperands ==
    {i \in 1..4 : /\ IsSome(opcode.operands[i])
                  /\ Unwrap(opcode.operands[i]).tag \in {"ModRM", "ModReg", "Immediate"}
                  /\ Unwrap(opcode.operands[i]).size = "U8"}

ByteOperandUnderPrefix ==
    /\ Returned /\ HasOpSizePrefix
    /\ \E i \in ByteOperands : Unwrap(resolved_operands[i]).tag = "Reg"


\* The number of bytes of the ModR/M byte, the SIB byte and the displacement
\* of the call.
ModRMLen == IF IsSome(maybe_modrm) THEN 1 ELSE 0
SibLen == IF IsSome(maybe_sib) THEN 1 ELSE 0
DispLen == IF IsSome(maybe_disp) THEN Len(Unwrap(maybe_disp).val) ELSE 0

\* The immediates among the resolved operands.
ResolvedImmediates ==
    {i \in 1..4 : /\ IsSome(resolved_operands[i])
                  /\ Unwrap(resolved_operands[i]).tag = "Immediate"}

\* C27: in every successful decode the bytes consumed are, in this order,
\* the prefixes, the REX byte, the opcode byte(s), the ModR/M byte, the SIB
\* byte, the displacement and the immediate.  A ModR/M byte is consumed
\* exactly when the encoding is M, MI, MR or RM; a SIB byte only right after
\* a ModR/M byte whose addressing form is Sib; the displacement right after
\* the ModR/M / SIB bytes and before the immediate; and for 0x80..0x83 and
\* 0xFF the byte that gave the extension is the byte decoded as ModR/M.
C27_ConsumptionOrder ==
    Returned =>
        /\ \A i \in 1..Len(prefixs) : Some(prefixs[i]) = PrefixFromByte(bytes[start + i])
        /\ IsSome(maybe_rex) =>
              maybe_rex = RexFromByte(bytes[start + Len(prefixs) + DroppedPrefix + 1])
        /\ IsSome(maybe_modrm) <=>
              (IsSome(opcode.encoding) /\ Unwrap(opcode.encoding) \in {"M", "MI", "MR", "RM"})
        /\ IsSome(maybe_modrm) =>
              Unwrap(maybe_modrm).addressing.mod_addr = ModBits(bytes[OpcodeEnd + 1])
        /\ IsSome(maybe_sib) =>
              /\ IsSome(maybe_modrm)
              /\ Unwrap(maybe_modrm).addressing.eff_addr.t = "Sib"
              /\ ModBits(bytes[OpcodeEnd + 1]) # 3 /\ RmBits(bytes[OpcodeEnd + 1]) = 4
        /\ IsSome(maybe_disp) =>
              /\ IsSome(maybe_modrm)
              /\ Unwrap(maybe_disp).val
                    = SubSeq(bytes, OpcodeEnd + 1 + SibLen + 1, OpcodeEnd + 1 + SibLen + DispLen)
        /\ pos = OpcodeEnd + ModRMLen + SibLen + DispLen + imm_bytes
        /\ \A i \in ResolvedImmediates :
              SubSeq(Unwrap(Unwrap(resolved_operands[i]).imm).val, 1, imm_bytes)
                  = SubSeq(bytes, pos - imm_bytes + 1, pos)
        /\ (opcode_bytes = 1 /\ bytes[OpcodeEnd] \in {128, 129, 130, 131}) =>
              /\ IsSome(maybe_modrm)
              /\ opcode.ident.t = Group1Names[RegBits(bytes[OpcodeEnd + 1]) + 1]
        /\ (opcode_bytes = 1 /\ bytes[OpcodeEnd] = 255) =>
              /\ IsSome(maybe_modrm)
              /\ opcode.ident.t = Group5Names[RegBits(bytes[OpcodeEnd + 1]) + 1]

\* C27 witness: a decode that consumed a prefix, a REX byte, an extension
\* opcode, its ModR/M byte, a SIB byte, a displacement and an immediate.
C27_Witness ==
    /\ Returned /\ Len(prefixs) > 0 /\ IsSome(maybe_rex)
    /\ opcode_bytes = 1 /\ bytes[OpcodeEnd] = 129
    /\ IsSome(maybe_modrm) /\ IsSome(maybe_sib) /\ IsSome(maybe_disp) /\ imm_bytes > 0


\* The operands resolved to a register from a ModRM or ModReg template.
ModRMRegisters ==
    {i \in 1..4 : /\ IsSome(opcode.operands[i])
                  /\ Unwrap(opcode.operands[i]).tag \in {"ModRM", "ModReg"}
                  /\ IsSome(resolved_operands[i])
                  /\ Unwrap(resolved_operands[i]).tag = "Reg"}

\* C28: in every returned Instruction the op_size recorded in InstOperands
\* is the width of every register operand resolved from a ModRM or ModReg
\* template, the byte-sized opcodes included.
C28_OpSizeIsRegisterWidth ==
    Returned =>
        \A i \in ModRMRegisters :
            RegSize(Unwrap(resolved_operands[i]).reg) = op_size_override

\* The same statement for the templates of overridable size only.
OpSizeIsOverridableRegisterWidth ==
    Returned =>
        \A i \in ModRMRegisters \cap OverridableOperands :
            RegSize(Unwrap(resolved_operands[i]).reg) = op_size_override


\* C29: the opcode of every returned Instruction is neither a legacy prefix
\* nor a REX prefix, whatever precedes it: more than 3 leading prefix
\* bytes, two REX bytes in a row, a legacy prefix after a REX byte.
C29_OpcodeIsNoPrefix ==
    Returned => opcode.ident.t \notin {"Prefix", "Rex"}

\* The same statement for the inputs with at most 3 leading prefix bytes
\* followed by at most one REX byte and a byte that is neither.
OpcodeIsNoPrefixWellFormed ==
    (Returned /\ LeadingPrefixes(bytes, start + 1, 4) <= 3
       /\ LET k == start + Len(prefixs) + 1 + (IF IsSome(maybe_rex) THEN 1 ELSE 0)
          IN  IsNone(PrefixFromByte(bytes[k])) /\ IsNone(RexFromByte(bytes[k])))
        => opcode.ident.t \notin {"Prefix", "Rex"}


\* The call as Some(Arch32) makes it, on the same buffer from the same
\* position.
AsArch32 == FromReader(bytes, Some("Arch32"), start)

\* C30: a call with maybe_arch = None ends as the call with Some(Arch32)
\* does: the same Instruction or the same error, and the same number of
\* bytes consumed.
C30_NoneIsArch32 ==
    (pc = "done" /\ maybe_arch = None) =>
        /\ result = AsArch32.result
        /\ pos = AsArch32.pos
        /\ err = AsArch32.err
        /\ result = "ok" =>
              /\ prefixs = AsArch32.prefixs /\ maybe_rex = AsArch32.maybe_rex
              /\ opcode = AsArch32.opcode /\ maybe_modrm = AsArch32.maybe_modrm
              /\ maybe_sib = AsArch32.maybe_sib /\ maybe_disp = AsArch32.maybe_disp
              /\ resolved_operands = AsArch32.resolved_operands
              /\ op_size_override = AsArch32.op_size_override

\* The same statement for the calls that decode no ModR/M byte.
NoneIsArch32WithoutModRM ==
    (pc = "done" /\ maybe_arch = None /\ IsNone(maybe_modrm)
       /\ IsNone(AsArch32.maybe_modrm)) =>
        /\ result = AsArch32.result /\ pos = AsArch32.pos /\ err = AsArch32.err
        /\ opcode = AsArch32.opcode
        /\ resolved_operands = AsArch32.resolved_operands

\* The calls that decode a ModR/M byte end alike and consume the same bytes.
NoneConsumesAsArch32 ==
    (pc = "done" /\ maybe_arch = None) =>
        /\ result = AsArch32.result /\ pos = AsArch32.pos

====
